---------------------------- MODULE Spec2Model ----------------------------
(***************************************************************************)
(* A model of houselinux: the per-family ring buffers filled by the        *)
(* periodic background functions, and the reduction of a series to a       *)
(* compact JSON fragment (houselinux_reduce_json), the status document and *)
(* its periodic flush to the metrics log.                                  *)
(*                                                                         *)
(* Text is modelled as TLA+ strings: snprintf is modelled by its returned  *)
(* length and by the bytes it leaves in the destination buffer.            *)
(***************************************************************************)
EXTENDS Integers, Sequences, FiniteSets, TLC

VARIABLES
    values,      \* reduce harness: the values array handed to reduce_json
    name,        \* reduce harness: the field name
    unit,        \* reduce harness: the unit string
    size,        \* reduce harness: the size argument of the last call
    result,      \* reduce harness: [ret, buffer] of the last call, or NoResult
    now,             \* time(0) at the latest houselinux_background call
    ticks,           \* how many houselinux_background calls were made
    src,             \* the pseudo-files as read at the latest background call
    out,             \* what the latest status or details call returned
    HouseCpuLatest,  \* houselinux_cpu.c: the CPU ring buffer and the load
    Previous,        \* houselinux_cpu.c: the baseline of houselinux_cpu_stat
    NextCpuCollect,  \* houselinux_cpu.c: next-due time of the CPU family
    HouseDiskIOLatest,   \* houselinux_diskio.c: the devices, in array order
    NextDiskIOCollect,   \* houselinux_diskio.c: next-due time of the family
    HouseNetIOLatest,    \* houselinux_netio.c: the devices, in array order
    NextNetIOCollect,    \* houselinux_netio.c: next-due time of the family
    HouseMemoryLatest,   \* houselinux_memory.c: the ring of memory samples
    NextMemoryCollect,   \* houselinux_memory.c: next-due time of the family
    HouseMountPoints,    \* houselinux_storage.c: the table of mount points
    NextStorageEnumerate,\* houselinux_storage.c: next-due time of enumerate
    NextCollect,         \* houselinux_storage.c: next-due time of the family
    HouseTempLatest,     \* houselinux_temp.c: the ring of temperatures
    HouseTempCpuPath,    \* houselinux_temp.c: the CPU sensor file, or ""
    HouseTempGpuPath,    \* houselinux_temp.c: the GPU sensor file, or ""
    NextTempCollect,     \* houselinux_temp.c: next-due time of the family
    NextTempRecord,      \* houselinux_temp.c: next-due time of the sensor log
    HouseMetricsStoreEnabled, \* houselinux.c: 0 with -metrics-no-store
    NextMetricsStore,    \* houselinux.c: next-due time of the metrics flush
    generated,           \* houselinux.c: when houselinux_status last computed
    buffer,              \* houselinux.c: the document of houselinux_status
    flushed              \* the times of the houselog_storage_flush calls

reduceVars == <<values, name, unit, size, result>>

cpuVars == <<HouseCpuLatest, Previous, NextCpuCollect>>

diskVars == <<HouseDiskIOLatest, NextDiskIOCollect>>

netVars == <<HouseNetIOLatest, NextNetIOCollect>>

memoryVars == <<HouseMemoryLatest, NextMemoryCollect>>

storageVars == <<HouseMountPoints, NextStorageEnumerate, NextCollect>>

tempVars == <<HouseTempLatest, HouseTempCpuPath, HouseTempGpuPath,
              NextTempCollect, NextTempRecord>>

metricsVars == <<HouseMetricsStoreEnabled, NextMetricsStore, generated,
                 buffer, flushed>>

envVars == <<now, ticks, src, out>>

vars == <<values, name, unit, size, result, now, ticks, src, out,
          HouseCpuLatest, Previous, NextCpuCollect,
          HouseDiskIOLatest, NextDiskIOCollect,
          HouseNetIOLatest, NextNetIOCollect,
          HouseMemoryLatest, NextMemoryCollect,
          HouseMountPoints, NextStorageEnumerate, NextCollect,
          HouseTempLatest, HouseTempCpuPath, HouseTempGpuPath,
          NextTempCollect, NextTempRecord,
          HouseMetricsStoreEnabled, NextMetricsStore, generated, buffer,
          flushed>>

-----------------------------------------------------------------------------
(* Bounds of the model.                                                    *)

MaxCount == 11      \* longest values array handed to the reduce harness
MaxSize == 26       \* largest destination size handed to the reduce harness
MaxMod == 4         \* longest repeating pattern of a generated values array
MaxExhaustive == 3  \* arrays up to this length are enumerated exhaustively
MaxTicks == 3       \* houselinux_background calls in one behaviour

-----------------------------------------------------------------------------
(* C arithmetic and text helpers.                                          *)

\* C integer division: truncates toward zero (TLA+ \div floors).
CDiv(a, b) ==
    LET abs(x) == IF x < 0 THEN -x ELSE x
        q == abs(a) \div abs(b)
    IN  IF (a < 0) = (b < 0) THEN q ELSE -q

\* printf "%lld".
Lld(n) == ToString(n)

\* snprintf (buffer, size, ...) of a text: the bytes left in the buffer
\* (at most size-1 characters, then the terminating NUL).
Truncate(text, sz) ==
    IF sz <= 0 THEN ""
    ELSE IF Len(text) < sz THEN text
    ELSE SubSeq(text, 1, sz - 1)

-----------------------------------------------------------------------------
(* houselinux_reduce.c                                                     *)

houselinux_reduce_compare(p1, p2) ==
    LET diff == p1 - p2
    IN  IF diff /= 0 THEN (IF diff < 0 THEN -1 ELSE 1) ELSE 0

\* qsort (..., houselinux_reduce_compare): the values in the ascending order
\* of the comparison. The k-th of them is the least value that at least k of
\* the values do not exceed.
Qsort(s) ==
    LET n == Len(s)
        D == { s[i] : i \in 1..n }
        upto(x) == Cardinality({ i \in 1..n :
                                   houselinux_reduce_compare(s[i], x) <= 0 })
    IN  [k \in 1..n |->
            CHOOSE x \in D :
                /\ upto(x) >= k
                /\ \A y \in D :
                       upto(y) >= k => houselinux_reduce_compare(x, y) <= 0]

\* SortedMetrics after the copy of the first count values and the qsort.
SortedCopy(vals, count) == Qsort(SubSeq(vals, 1, count))

\* The caller's array after the call: its first count values are copied to
\* SortedMetrics, which is what qsort is handed; the array is read only.
ReduceCallerValues(vals, count) == vals

\* The median of the sorted copy (SortedMetrics is 0-based in C, 1-based here).
ReduceMedianFloor(S, count) ==
    IF count % 2 = 1 THEN S[(count \div 2) + 1]
    ELSE (S[count \div 2] + S[(count \div 2) + 1]) \div 2

ReduceMedian(S, count) ==
    IF count % 2 = 1 THEN S[(count \div 2) + 1]
    ELSE LET half == count \div 2
         IN  CDiv(S[half] + S[half + 1], 2)

\* The text that the snprintf calls format, before any truncation.
ReduceTextMedianAt9(S, count, nm, un) ==
    LET last == count
    IN  IF S[1] = S[last] THEN
            IF S[1] = 0 THEN ""
            ELSE ",\"" \o nm \o "\":[" \o Lld(S[1]) \o ",\"" \o un \o "\"]"
        ELSE IF count >= 9 THEN
            ",\"" \o nm \o "\":[" \o Lld(S[1]) \o "," \o Lld(ReduceMedian(S, count))
                  \o "," \o Lld(S[last]) \o ",\"" \o un \o "\"]"
        ELSE
            ",\"" \o nm \o "\":[" \o Lld(S[1]) \o "," \o Lld(S[last])
                  \o ",\"" \o un \o "\"]"

ReduceTextNoCollapse(S, count, nm, un) ==
    LET last == count
    IN  IF S[1] = S[last] /\ S[1] = 0 THEN ""
        ELSE IF count >= 10 THEN
            ",\"" \o nm \o "\":[" \o Lld(S[1]) \o "," \o Lld(ReduceMedian(S, count))
                  \o "," \o Lld(S[last]) \o ",\"" \o un \o "\"]"
        ELSE
            ",\"" \o nm \o "\":[" \o Lld(S[1]) \o "," \o Lld(S[last])
                  \o ",\"" \o un \o "\"]"

ReduceTextZeroShown(S, count, nm, un) ==
    LET last == count
    IN  IF S[1] = S[last] THEN
            ",\"" \o nm \o "\":[" \o Lld(S[1]) \o ",\"" \o un \o "\"]"
        ELSE IF count >= 10 THEN
            ",\"" \o nm \o "\":[" \o Lld(S[1]) \o "," \o Lld(ReduceMedian(S, count))
                  \o "," \o Lld(S[last]) \o ",\"" \o un \o "\"]"
        ELSE
            ",\"" \o nm \o "\":[" \o Lld(S[1]) \o "," \o Lld(S[last])
                  \o ",\"" \o un \o "\"]"

ReduceText(S, count, nm, un) ==
    LET last == count
    IN  IF S[1] = S[last] THEN
            IF S[1] = 0 THEN ""
            ELSE ",\"" \o nm \o "\":[" \o Lld(S[1]) \o ",\"" \o un \o "\"]"
        ELSE IF count >= 10 THEN
            ",\"" \o nm \o "\":[" \o Lld(S[1]) \o "," \o Lld(ReduceMedian(S, count))
                  \o "," \o Lld(S[last]) \o ",\"" \o un \o "\"]"
        ELSE
            ",\"" \o nm \o "\":[" \o Lld(S[1]) \o "," \o Lld(S[last])
                  \o ",\"" \o un \o "\"]"

\* if (cursor >= size) return 0; return cursor;
ReduceReturnOffByOne(cursor, sz) ==
    IF cursor > sz THEN 0 ELSE cursor

ReduceReturn(cursor, sz) ==
    IF cursor >= sz THEN 0 ELSE cursor

\* The whole call: [ret |-> the returned int, buffer |-> the bytes left in the
\* destination up to its NUL].
houselinux_reduce_json(sz, nm, vals, count, un) ==
    LET S == SortedCopy(vals, count)
        text == ReduceText(S, count, nm, un)
    IN  [ret |-> ReduceReturn(Len(text), sz), buffer |-> Truncate(text, sz)]

-----------------------------------------------------------------------------
(* The pseudo-files. A file is [ok |-> whether it could be opened and held  *)
(* the expected line, v |-> the integers of that line].                    *)

Unreadable == [ok |-> FALSE, v |-> <<>>]

File(v) == [ok |-> TRUE, v |-> v]

\* An array of n slots, C-indexed from 0, all zero (static storage).
Zeroes(n) == [i \in 0..(n - 1) |-> 0]

\* The 1-indexed sequence of the first n slots of a C array.
AsSeq(arr, n) == [i \in 1..n |-> arr[i - 1]]

-----------------------------------------------------------------------------
(* Destination buffers: [buf |-> the bytes up to the NUL, cursor |-> the   *)
(* caller's cursor].                                                       *)

\* cursor = snprintf (buffer, size, text): a write at offset 0.
SnprintfAt0(sz, text) == [buf |-> Truncate(text, sz), cursor |-> Len(text)]

\* cursor += snprintf (buffer+cursor, size-cursor, text)
Snprintf(st, sz, text) ==
    [buf |-> SubSeq(st.buf, 1, st.cursor) \o Truncate(text, sz - st.cursor),
     cursor |-> st.cursor + Len(text)]

\* cursor += houselinux_reduce_json (buffer+cursor, size-cursor, ...)
ReduceJsonAt(st, sz, nm, arr, count, un) ==
    LET r == houselinux_reduce_json(sz - st.cursor, nm, AsSeq(arr, count),
                                    count, un)
    IN  [buf |-> SubSeq(st.buf, 1, st.cursor) \o r.buffer,
         cursor |-> st.cursor + r.ret]

\* buffer[at] = c
Poke(st, at, c) ==
    [st EXCEPT !.buf = SubSeq(st.buf, 1, at) \o c
                         \o SubSeq(st.buf, at + 2, Len(st.buf))]

\* What a status function hands back: the returned length and the buffer.
Returned(ret, st) == [ret |-> ret, buffer |-> st.buf]

-----------------------------------------------------------------------------
(* houselinux_cpu.c                                                        *)

HOUSE_CPU_PERIOD == 5
HOUSE_CPU_SPAN == 60

CpuInit ==
    /\ HouseCpuLatest = [timestamp |-> Zeroes(HOUSE_CPU_SPAN),
                         busy |-> Zeroes(HOUSE_CPU_SPAN),
                         iowait |-> Zeroes(HOUSE_CPU_SPAN),
                         steal |-> Zeroes(HOUSE_CPU_SPAN),
                         load1 |-> 0, load5 |-> 0, load15 |-> 0]
    /\ Previous = Zeroes(16)
    /\ NextCpuCollect = 0

\* ,"load":[load1,load5,load15,0] when one of them is > 0.
CpuLoadAt(st, sz) ==
    IF \/ HouseCpuLatest.load1 > 0
       \/ HouseCpuLatest.load5 > 0
       \/ HouseCpuLatest.load15 > 0
    THEN Snprintf(st, sz, ",\"load\":[" \o Lld(HouseCpuLatest.load1) \o ","
                          \o Lld(HouseCpuLatest.load5) \o ","
                          \o Lld(HouseCpuLatest.load15) \o ",0]")
    ELSE st

houselinux_cpu_status(sz) ==
    LET st0 == SnprintfAt0(sz, ",\"cpu\":")
        start == st0.cursor
        st1 == ReduceJsonAt(st0, sz, "busy", HouseCpuLatest.busy,
                            HOUSE_CPU_SPAN, "%")
        st2 == ReduceJsonAt(st1, sz, "iowait", HouseCpuLatest.iowait,
                            HOUSE_CPU_SPAN, "%")
        st3 == ReduceJsonAt(st2, sz, "steal", HouseCpuLatest.steal,
                            HOUSE_CPU_SPAN, "%")
        st4 == CpuLoadAt(st3, sz)
        st5 == Snprintf(Poke(st4, start, "{"), sz, "}")
    IN  IF st0.cursor >= sz THEN Returned(0, st0)
        ELSE IF st1.cursor >= sz THEN Returned(0, st1)
        ELSE IF st2.cursor >= sz THEN Returned(0, st2)
        ELSE IF st3.cursor >= sz THEN Returned(0, st3)
        ELSE IF st4.cursor >= sz THEN Returned(0, st4)
        ELSE IF st4.cursor <= start THEN Returned(0, st4)
        ELSE IF st5.cursor >= sz THEN Returned(0, st5)
        ELSE Returned(st5.cursor, st5)

\* houselinux_cpu_load: the three load averages, in hundredths.
houselinux_cpu_load(latest, loadavg) ==
    IF ~loadavg.ok THEN latest
    ELSE [latest EXCEPT !.load1 = loadavg.v[1], !.load5 = loadavg.v[2],
                        !.load15 = loadavg.v[3]]

\* value[16], zero but for the items of the "cpu" line.
CpuValue(stat) == [i \in 0..15 |-> IF i < Len(stat.v) THEN stat.v[i + 1] ELSE 0]

\* for (i = 7; i >= 0; --i) total += value[i] - Previous[i];
RECURSIVE CpuTotal(_, _, _)
CpuTotal(value, prev, i) ==
    IF i < 0 THEN 0 ELSE (value[i] - prev[i]) + CpuTotal(value, prev, i - 1)

\* A variant that does not count the time waiting for I/O as idle.
CpuSample_iobusy(latest, index, value, prev) ==
    LET total == CpuTotal(value, prev, 7)
    IN  IF total <= 0 THEN
            [latest EXCEPT !.busy[index] = 0, !.iowait[index] = 0]
        ELSE
            LET steal == value[7] - prev[7]
                iowait == value[4] - prev[4]
                idle == value[3] - prev[3]
            IN  [latest EXCEPT
                    !.busy[index] = CDiv(100 * (total - idle), total),
                    !.iowait[index] = CDiv(100 * iowait, total),
                    !.steal[index] = CDiv(100 * steal, total)]

\* The slot of a successful read (lines 235-251): [busy, iowait, steal] left in
\* slot index of latest.
CpuSample(latest, index, value, prev) ==
    LET total == CpuTotal(value, prev, 7)
    IN  IF total <= 0 THEN
            [latest EXCEPT !.busy[index] = 0, !.iowait[index] = 0]
        ELSE
            LET steal == value[7] - prev[7]
                iowait == value[4] - prev[4]
                idle == (value[3] - prev[3]) + iowait
            IN  [latest EXCEPT
                    !.busy[index] = CDiv(100 * (total - idle), total),
                    !.iowait[index] = CDiv(100 * iowait, total),
                    !.steal[index] = CDiv(100 * steal, total)]

\* A variant that keeps the baseline when the total of the deltas is not
\* positive.
houselinux_cpu_stat_keep(record, latest, index, prev, stat) ==
    LET reset == IF record
                 THEN [latest EXCEPT !.busy[index] = 0, !.iowait[index] = 0]
                 ELSE latest
    IN  IF ~stat.ok THEN [latest |-> reset, previous |-> prev]
        ELSE [latest |-> IF record
                         THEN CpuSample(reset, index, CpuValue(stat), prev)
                         ELSE reset,
              previous |-> IF record /\ CpuTotal(CpuValue(stat), prev, 7) <= 0
                           THEN prev ELSE CpuValue(stat)]

\* houselinux_cpu_stat (latest, index); record is FALSE for a null latest.
\* Gives the new [latest, previous].
houselinux_cpu_stat(record, latest, index, prev, stat) ==
    LET reset == IF record
                 THEN [latest EXCEPT !.busy[index] = 0, !.iowait[index] = 0]
                 ELSE latest
    IN  IF ~stat.ok THEN [latest |-> reset, previous |-> prev]
        ELSE [latest |-> IF record
                         THEN CpuSample(reset, index, CpuValue(stat), prev)
                         ELSE reset,
              previous |-> CpuValue(stat)]

\* int index = (now / HOUSE_CPU_PERIOD) % HOUSE_CPU_SPAN;
CpuIndex(t) == (t \div HOUSE_CPU_PERIOD) % HOUSE_CPU_SPAN

\* The slot written by a sampling call at time t.
CpuRecord(latest, index, t) == [latest EXCEPT !.timestamp[index] = t]

\* A variant without the first-time branch: the first call samples too.
houselinux_cpu_background_nopriming(t, s) ==
    IF t < NextCpuCollect THEN UNCHANGED cpuVars
    ELSE
        /\ NextCpuCollect' = t + HOUSE_CPU_PERIOD
        /\ LET index == CpuIndex(t)
               r == houselinux_cpu_stat(TRUE, HouseCpuLatest, index,
                                        Previous, s.stat)
               l == houselinux_cpu_load(r.latest, s.loadavg)
           IN  /\ Previous' = r.previous
               /\ HouseCpuLatest' = CpuRecord(l, index, t)

houselinux_cpu_background(t, s) ==
    IF t < NextCpuCollect THEN UNCHANGED cpuVars
    ELSE
        /\ NextCpuCollect' = t + HOUSE_CPU_PERIOD
        /\ IF NextCpuCollect = 0 THEN
               LET r == houselinux_cpu_stat(FALSE, HouseCpuLatest, 0,
                                            Previous, s.stat)
               IN  /\ Previous' = r.previous
                   /\ HouseCpuLatest' = r.latest
           ELSE
               LET index == CpuIndex(t)
                   r == houselinux_cpu_stat(TRUE, HouseCpuLatest, index,
                                            Previous, s.stat)
                   l == houselinux_cpu_load(r.latest, s.loadavg)
               IN  /\ Previous' = r.previous
                   /\ HouseCpuLatest' = CpuRecord(l, index, t)

-----------------------------------------------------------------------------
(* Memory obtained from realloc is not initialized: a new device entry     *)
(* holds either zeroes (fresh pages) or what an earlier allocation left.   *)

HeapGarbage == 86

FreshArrays(n) == { Zeroes(n), [i \in 0..(n - 1) |-> HeapGarbage] }

\* The last character of a device name is a digit (isdigit).
EndsWithDigit(device) ==
    /\ Len(device) > 0
    /\ SubSeq(device, Len(device), Len(device))
           \in {"0", "1", "2", "3", "4", "5", "6", "7", "8", "9"}

-----------------------------------------------------------------------------
(* houselinux_diskio.c                                                     *)
(* A line of /proc/diskstats is [major, minor, device, value], value being *)
(* the counters that follow the device name, C-indexed from 0.             *)

HOUSE_DISKIO_PERIOD == 5
HOUSE_DISKIO_SPAN == 60

\* houselinux_diskio_find (int minor, int major): the C index of the first
\* entry whose minor field equals the first argument and whose major field
\* equals the second, or -1.
houselinux_diskio_find(latest, minor, major) ==
    LET hits == { i \in 1..Len(latest) :
                    latest[i].minor = minor /\ latest[i].major = major }
    IN  IF hits = {} THEN -1
        ELSE (CHOOSE i \in hits : \A j \in hits : i <= j) - 1

\* houselinux_diskio_add (int minor, int major, device): a new entry at the
\* end of the array; fresh is what realloc left in its arrays.
houselinux_diskio_add(latest, minor, major, device, fresh) ==
    Append(latest, [major |-> major, minor |-> minor,
                    device |-> Truncate(device, 16),
                    timestamps |-> fresh, rdrate |-> fresh, wrrate |-> fresh,
                    rdwait |-> fresh, wrwait |-> fresh,
                    previous |-> fresh])

\* The loop of houselinux_diskio_initialize over the lines of the file. The
\* call sites hand (major, minor) where the functions declare (minor, major).
RECURSIVE DiskInitLines(_, _, _)
DiskInitLines(latest, lines, fresh) ==
    IF lines = <<>> THEN latest
    ELSE LET line == Head(lines)
         IN  IF EndsWithDigit(line.device)
             THEN DiskInitLines(latest, Tail(lines), fresh)
             ELSE LET added == houselinux_diskio_add(latest, line.major,
                                   line.minor, line.device, fresh)
                      index == Len(added)
                  IN  DiskInitLines(
                          [added EXCEPT ![index].previous = line.value],
                          Tail(lines), fresh)

houselinux_diskio_initialize(file, fresh) ==
    IF ~file.ok THEN <<>> ELSE DiskInitLines(<<>>, file.v, fresh)

\* A variant that stores the count of reads, not divided by the period.
DiskSampleNoPeriod(metrics, index, t, value) ==
    LET rcount == value[0] - metrics.previous[0]
        rwait == value[3] - metrics.previous[3]
        wcount == value[4] - metrics.previous[4]
        wwait == value[7] - metrics.previous[7]
    IN  [metrics EXCEPT
            !.rdrate[index] = rcount,
            !.rdwait[index] = IF rcount <= 0 THEN 0 ELSE CDiv(rwait, rcount),
            !.wrrate[index] = CDiv(wcount, HOUSE_DISKIO_PERIOD),
            !.wrwait[index] = IF wcount <= 0 THEN 0 ELSE CDiv(wwait, wcount),
            !.timestamps[index] = t,
            !.previous = value]

\* The slot computed from one line for a known device (lines 323-344).
DiskSample(metrics, index, t, value) ==
    LET rcount == value[0] - metrics.previous[0]
        rwait == value[3] - metrics.previous[3]
        wcount == value[4] - metrics.previous[4]
        wwait == value[7] - metrics.previous[7]
    IN  [metrics EXCEPT
            !.rdrate[index] = CDiv(rcount, HOUSE_DISKIO_PERIOD),
            !.rdwait[index] = IF rcount <= 0 THEN 0 ELSE CDiv(rwait, rcount),
            !.wrrate[index] = CDiv(wcount, HOUSE_DISKIO_PERIOD),
            !.wrwait[index] = IF wcount <= 0 THEN 0 ELSE CDiv(wwait, wcount),
            !.timestamps[index] = t,
            !.previous = value]

\* The loop of houselinux_diskio_stat over the lines of the file.
RECURSIVE DiskStatLines(_, _, _, _)
DiskStatLines(latest, lines, index, t) ==
    IF lines = <<>> THEN latest
    ELSE LET line == Head(lines)
             devindex == houselinux_diskio_find(latest, line.major, line.minor)
         IN  IF devindex < 0 THEN DiskStatLines(latest, Tail(lines), index, t)
             ELSE DiskStatLines(
                      [latest EXCEPT ![devindex + 1] =
                          DiskSample(latest[devindex + 1], index, t, line.value)],
                      Tail(lines), index, t)

\* A variant that forgets the baselines when the file cannot be opened.
houselinux_diskio_stat_forget(latest, index, t, file) ==
    IF ~file.ok
    THEN [d \in 1..Len(latest) |->
             [latest[d] EXCEPT !.previous = [i \in 0..7 |-> 0]]]
    ELSE DiskStatLines(latest, file.v, index, t)

houselinux_diskio_stat(latest, index, t, file) ==
    IF ~file.ok THEN latest ELSE DiskStatLines(latest, file.v, index, t)

DiskIndex(t) == (t \div HOUSE_DISKIO_PERIOD) % HOUSE_DISKIO_SPAN

houselinux_diskio_background(t, s) ==
    IF t < NextDiskIOCollect THEN UNCHANGED diskVars
    ELSE
        /\ NextDiskIOCollect' = t + HOUSE_DISKIO_PERIOD
        /\ IF NextDiskIOCollect /= 0
           THEN HouseDiskIOLatest' =
                    houselinux_diskio_stat(HouseDiskIOLatest, DiskIndex(t), t,
                                           s.diskstats)
           ELSE UNCHANGED HouseDiskIOLatest

\* The state after houselinux_diskio_initialize.
DiskInit(file, fresh) ==
    /\ HouseDiskIOLatest = houselinux_diskio_initialize(file, fresh)
    /\ NextDiskIOCollect = 0

\* The body of the loop of houselinux_diskio_status over the entries left,
\* from the destination st. Gives the destination as the loop leaves it. A
\* snprintf past the end of the destination adds to the cursor only.
RECURSIVE DiskStatusLoop(_, _, _, _)
DiskStatusLoop(list, st, sep, sz) ==
    IF list = <<>> THEN st
    ELSE LET entry == Head(list)
             startdev == st.cursor
             label == sep \o "\"" \o entry.device \o "\":"
             st1 == IF st.cursor >= sz
                    THEN [st EXCEPT !.cursor = @ + Len(label)]
                    ELSE Snprintf(st, sz, label)
             startmetrics == st1.cursor
             st2 == ReduceJsonAt(st1, sz, "rdrate", entry.rdrate,
                                 HOUSE_DISKIO_SPAN, "r/s")
             st3 == ReduceJsonAt(st2, sz, "rdwait", entry.rdwait,
                                 HOUSE_DISKIO_SPAN, "ms")
             st4 == ReduceJsonAt(st3, sz, "wrrate", entry.wrrate,
                                 HOUSE_DISKIO_SPAN, "w/s")
             st5 == ReduceJsonAt(st4, sz, "wrwait", entry.wrwait,
                                 HOUSE_DISKIO_SPAN, "ms")
             st6 == Snprintf(Poke(st5, startmetrics, "{"), sz, "}")
         IN  IF st1.cursor >= sz THEN st1
             ELSE IF st2.cursor >= sz THEN st2
             ELSE IF st3.cursor >= sz THEN st3
             ELSE IF st4.cursor >= sz THEN st4
             ELSE IF st5.cursor >= sz THEN st5
             ELSE IF st5.cursor = startmetrics
                  THEN DiskStatusLoop(Tail(list),
                                      [st1 EXCEPT !.cursor = startdev], sep, sz)
             ELSE DiskStatusLoop(Tail(list), st6, ",", sz)

\* houselinux_diskio_status: the returned length and the bytes left in the
\* destination.
houselinux_diskio_status(sz) ==
    LET st0 == SnprintfAt0(sz, ",\"disk\":{")
        start == st0.cursor
        loop == DiskStatusLoop(HouseDiskIOLatest, st0, "", sz)
        last == IF loop.cursor >= sz THEN [loop EXCEPT !.cursor = @ + 1]
                ELSE Snprintf(loop, sz, "}")
    IN  IF st0.cursor >= sz THEN Returned(0, st0)
        ELSE IF loop.cursor = start THEN Returned(0, loop)
        ELSE IF last.cursor >= sz THEN Returned(0, last)
        ELSE Returned(last.cursor, last)

-----------------------------------------------------------------------------
(* houselinux_netio.c                                                      *)
(* A line of /proc/net/dev is [device, value], value being the counters    *)
(* that follow the colon, C-indexed from 0.                                *)

HOUSE_NETIO_PERIOD == 5
HOUSE_NETIO_SPAN == 60

\* The C index of the first entry with that device name, or -1.
houselinux_netio_find(latest, device) ==
    LET hits == { i \in 1..Len(latest) : latest[i].device = device }
    IN  IF hits = {} THEN -1
        ELSE (CHOOSE i \in hits : \A j \in hits : i <= j) - 1

houselinux_netio_add(latest, device, fresh) ==
    Append(latest, [device |-> Truncate(device, 16),
                    timestamps |-> fresh, rxrate |-> fresh, txrate |-> fresh,
                    previous |-> fresh])

RECURSIVE NetInitLines(_, _, _)
NetInitLines(latest, lines, fresh) ==
    IF lines = <<>> THEN latest
    ELSE LET line == Head(lines)
         IN  IF line.device = "lo"
             THEN NetInitLines(latest, Tail(lines), fresh)
             ELSE LET added == houselinux_netio_add(latest, line.device, fresh)
                      index == Len(added)
                  IN  NetInitLines(
                          [added EXCEPT ![index].previous = line.value],
                          Tail(lines), fresh)

houselinux_netio_initialize(file, fresh) ==
    IF ~file.ok THEN <<>> ELSE NetInitLines(<<>>, file.v, fresh)

\* The slot computed from one line for a known device (lines 289-298).
NetSample(metrics, index, t, value) ==
    [metrics EXCEPT
        !.rxrate[index] =
            CDiv(CDiv(value[0] - metrics.previous[0], 1024), HOUSE_NETIO_PERIOD),
        !.txrate[index] =
            CDiv(CDiv(value[8] - metrics.previous[8], 1024), HOUSE_NETIO_PERIOD),
        !.timestamps[index] = t,
        !.previous = value]

RECURSIVE NetStatLines(_, _, _, _)
NetStatLines(latest, lines, index, t) ==
    IF lines = <<>> THEN latest
    ELSE LET line == Head(lines)
             devindex == houselinux_netio_find(latest, line.device)
         IN  IF devindex < 0 THEN NetStatLines(latest, Tail(lines), index, t)
             ELSE NetStatLines(
                      [latest EXCEPT ![devindex + 1] =
                          NetSample(latest[devindex + 1], index, t, line.value)],
                      Tail(lines), index, t)

\* A variant that stamps the slot of every entry, found in the file or not.
houselinux_netio_stat_stampall(latest, index, t, file) ==
    IF ~file.ok THEN latest
    ELSE LET sampled == NetStatLines(latest, file.v, index, t)
         IN  [d \in 1..Len(sampled) |->
                 [sampled[d] EXCEPT !.timestamps[index] = t]]

houselinux_netio_stat(latest, index, t, file) ==
    IF ~file.ok THEN latest ELSE NetStatLines(latest, file.v, index, t)

NetIndex(t) == (t \div HOUSE_NETIO_PERIOD) % HOUSE_NETIO_SPAN

houselinux_netio_background(t, s) ==
    IF t < NextNetIOCollect THEN UNCHANGED netVars
    ELSE
        /\ NextNetIOCollect' = t + HOUSE_NETIO_PERIOD
        /\ IF NextNetIOCollect /= 0
           THEN HouseNetIOLatest' =
                    houselinux_netio_stat(HouseNetIOLatest, NetIndex(t), t,
                                          s.netdev)
           ELSE UNCHANGED HouseNetIOLatest

\* The state after houselinux_netio_initialize.
NetInit(file, fresh) ==
    /\ HouseNetIOLatest = houselinux_netio_initialize(file, fresh)
    /\ NextNetIOCollect = 0

-----------------------------------------------------------------------------
(* houselinux_memory.c                                                     *)
(* /proc/meminfo is a sequence of <<label, kB>> lines.                     *)

HOUSE_MEMORY_PERIOD == 10
HOUSE_MEMORY_SPAN == 30

NoMemory == [timestamp |-> 0, memtotal |-> 0, memavailable |-> 0,
             memdirty |-> 0, swaptotal |-> 0, swapfree |-> 0]

RECURSIVE MeminfoLines(_, _)
MeminfoLines(metrics, lines) ==
    IF lines = <<>> THEN metrics
    ELSE LET label == Head(lines)[1]
             mb == CDiv(Head(lines)[2], 1024)
             next ==
                 IF label = "MemTotal" THEN [metrics EXCEPT !.memtotal = mb]
                 ELSE IF label = "MemAvailable"
                      THEN [metrics EXCEPT !.memavailable = mb]
                 ELSE IF label = "SwapTotal"
                      THEN [metrics EXCEPT !.swaptotal = mb]
                 ELSE IF label = "SwapFree"
                      THEN [metrics EXCEPT !.swapfree = mb]
                 ELSE IF label = "Dirty" THEN [metrics EXCEPT !.memdirty = mb]
                 ELSE metrics
         IN  MeminfoLines(next, Tail(lines))

\* The five metrics are reset, then set from the lines found.
houselinux_memory_meminfo(metrics, file) ==
    LET reset == [NoMemory EXCEPT !.timestamp = metrics.timestamp]
    IN  IF ~file.ok THEN reset ELSE MeminfoLines(reset, file.v)

\* A variant that wraps one slot short of the ring buffer.
MemoryIndex_short(t) == (t \div HOUSE_MEMORY_PERIOD) % (HOUSE_MEMORY_SPAN - 1)

MemoryIndex(t) == (t \div HOUSE_MEMORY_PERIOD) % HOUSE_MEMORY_SPAN

\* A variant that samples at every call, due or not.
houselinux_memory_background_always(t, s) ==
    /\ NextMemoryCollect' = t + HOUSE_MEMORY_PERIOD
    /\ HouseMemoryLatest' =
           [HouseMemoryLatest EXCEPT ![MemoryIndex(t)] =
               [houselinux_memory_meminfo(@, s.meminfo)
                    EXCEPT !.timestamp = t]]

houselinux_memory_background(t, s) ==
    IF t < NextMemoryCollect THEN UNCHANGED memoryVars
    ELSE
        /\ NextMemoryCollect' = t + HOUSE_MEMORY_PERIOD
        /\ HouseMemoryLatest' =
               [HouseMemoryLatest EXCEPT ![MemoryIndex(t)] =
                   [houselinux_memory_meminfo(@, s.meminfo)
                        EXCEPT !.timestamp = t]]

\* The static storage of the family.
MemoryInit ==
    /\ HouseMemoryLatest = [i \in 0..(HOUSE_MEMORY_SPAN - 1) |-> NoMemory]
    /\ NextMemoryCollect = 0

\* houselinux_memory_minimum, houselinux_memory_maximum: the new *dest.
houselinux_memory_minimum(value, dest) ==
    IF dest = 0 \/ value < dest THEN value ELSE dest

houselinux_memory_maximum(value, dest) ==
    IF value > dest THEN value ELSE dest

\* The slots that the loop of houselinux_memory_status visits, in its order,
\* less those it skips for a timestamp of 0.
MemoryWalk(t) ==
    SelectSeq([n \in 1..HOUSE_MEMORY_SPAN |->
                  HouseMemoryLatest[(MemoryIndex(t) + n) % HOUSE_MEMORY_SPAN]],
              LAMBDA metrics : metrics.timestamp /= 0)

\* The body of that loop, over the slots left to visit.
RECURSIVE MemoryReduce(_, _)
MemoryReduce(acc, list) ==
    IF list = <<>> THEN acc
    ELSE LET metrics == Head(list)
             minav == houselinux_memory_minimum(metrics.memavailable,
                                                acc.min.memavailable)
             maxav == houselinux_memory_maximum(metrics.memavailable,
                                                acc.max.memavailable)
             mindi == houselinux_memory_minimum(metrics.memdirty,
                                                acc.min.memdirty)
             maxdi == houselinux_memory_maximum(metrics.memdirty,
                                                acc.max.memdirty)
             minsw == houselinux_memory_minimum(metrics.swapfree,
                                                acc.min.swapfree)
             maxsw == houselinux_memory_maximum(metrics.swapfree,
                                                acc.max.swapfree)
             first == acc.memtotal = 0
         IN  MemoryReduce(
                 [min |-> [acc.min EXCEPT !.memavailable = minav,
                                          !.memdirty = mindi,
                                          !.swapfree = minsw],
                  max |-> [acc.max EXCEPT !.memavailable = maxav,
                                          !.memdirty = maxdi,
                                          !.swapfree = maxsw],
                  memtotal |-> IF first THEN metrics.memtotal
                               ELSE acc.memtotal,
                  swaptotal |-> IF first THEN metrics.swaptotal
                                ELSE acc.swaptotal],
                 Tail(list))

\* houselinux_memory_status, at time(0) = t: the returned length and the
\* bytes left in the destination. A return before the first write leaves the
\* destination as it was, which is empty.
houselinux_memory_status(sz, t) ==
    LET r == MemoryReduce([min |-> NoMemory, max |-> NoMemory,
                           memtotal |-> 0, swaptotal |-> 0], MemoryWalk(t))
        used(av) == Lld(CDiv(100 * (r.memtotal - av), r.memtotal))
        mem_ascii ==
            IF r.min.memavailable = r.max.memavailable
            THEN "\"available\":[" \o Lld(r.min.memavailable)
                 \o ",\"MB\"],\"used\":[" \o used(r.max.memavailable)
                 \o ",\"%\"]"
            ELSE "\"available\":[" \o Lld(r.min.memavailable) \o ","
                 \o Lld(r.max.memavailable) \o ",\"MB\"],\"used\":["
                 \o used(r.max.memavailable) \o ","
                 \o used(r.min.memavailable) \o ",\"%\"]"
        dirty_ascii ==
            IF r.min.memdirty = r.max.memdirty
            THEN IF r.min.memdirty = 0 THEN ""
                 ELSE "\"dirty\":[" \o Lld(r.min.memdirty) \o ",\"MB\"]"
            ELSE "\"dirty\":[" \o Lld(r.min.memdirty) \o ","
                 \o Lld(r.max.memdirty) \o ",\"MB\"]"
        swap_ascii ==
            IF r.swaptotal = 0 THEN ""
            ELSE IF r.min.swapfree = r.max.swapfree
            THEN "\"swap\":[" \o Lld(r.swaptotal) \o ",\"MB\"],\"swapped\":["
                 \o Lld(r.swaptotal - r.max.swapfree) \o ",\"MB\"]"
            ELSE "\"swap\":[" \o Lld(r.swaptotal) \o ",\"MB\"],\"swapped\":["
                 \o Lld(r.swaptotal - r.max.swapfree) \o ","
                 \o Lld(r.swaptotal - r.min.swapfree) \o ",\"MB\"]"
        st == SnprintfAt0(sz, "\"memory\":{\"ram\":[" \o Lld(r.memtotal)
                              \o ",\"MB\"]," \o Truncate(mem_ascii, 128)
                              \o "," \o Truncate(dirty_ascii, 64)
                              \o "," \o Truncate(swap_ascii, 128) \o "}")
    IN  IF r.memtotal = 0 THEN [ret |-> 0, buffer |-> ""]
        ELSE IF st.cursor >= sz THEN Returned(0, st)
        ELSE Returned(st.cursor, st)

-----------------------------------------------------------------------------
(* houselinux_storage.c                                                    *)
(* A line of /proc/self/mountinfo is [mount, fs, dev, after]: its fields   *)
(* 5, the two that follow the "-" separator, and the character that the    *)
(* line buffer holds one past the terminator of the mount field. statvfs   *)
(* is a function from mount paths to [ok, f_blocks, f_frsize, f_bavail,    *)
(* f_bsize].                                                               *)

HOUSE_MOUNT_MAX == 32
HOUSE_MOUNT_PERIOD == 60
HOUSE_MOUNT_SPAN == 5

\* A null char pointer.
NullString == ""

NoMountPoint ==
    [detected |-> 0, dev |-> NullString, mount |-> NullString,
     fs |-> NullString,
     metrics |-> [timestamp |-> Zeroes(HOUSE_MOUNT_SPAN), size |-> 0,
                  free |-> Zeroes(HOUSE_MOUNT_SPAN)]]

houselinux_storage_free(fs) == fs.f_bavail * fs.f_bsize

houselinux_storage_total(fs) == fs.f_blocks * fs.f_frsize

\* The character at C index k of a string followed by its terminator ("")
\* and then by the character after.
CharAt(text, k, after) ==
    IF k < Len(text) THEN SubSeq(text, k + 1, k + 1)
    ELSE IF k = Len(text) THEN "" ELSE after

\* The index at which the loop of houselinux_storage_path_match leaves both
\* pointers: one past the first mismatch, or at the terminator of ref.
RECURSIVE PathMatchStop(_, _, _, _)
PathMatchStop(value, ref, k, after) ==
    IF CharAt(ref, k, "") = CharAt(value, k, after)
       /\ CharAt(ref, k + 1, "") /= ""
    THEN PathMatchStop(value, ref, k + 1, after)
    ELSE k + 1

houselinux_storage_path_match(value, ref, after) ==
    LET k == PathMatchStop(value, ref, 0, after)
    IN  ~ ( CharAt(ref, k, "") /= ""
            \/ ( CharAt(value, k, after) /= ""
                 /\ CharAt(value, k, after) /= "/" ) )

\* The scan of houselinux_storage_register_mount, from i down to 0: it stops
\* at the first entry in use that holds this mount (-1 if none does), and
\* available is the free entry it saw last, the lowest one above where it
\* stopped (-1 if it saw none).
RegisterScan(points, mount, i, available) ==
    LET hits == { k \in 0..i : points[k].detected > 0
                                   /\ points[k].mount = mount }
        stop == IF hits = {} THEN -1
                ELSE CHOOSE k \in hits : \A h \in hits : h <= k
        free == { k \in (stop + 1)..i : points[k].detected <= 0 }
    IN  [i |-> stop,
         available |-> IF free = {} THEN available
                       ELSE CHOOSE k \in free : \A f \in free : k <= f]

\* A variant that takes the first entry of the table when no entry is free.
houselinux_storage_register_mount_evict(points, t, dev, mount, fs) ==
    LET scan == RegisterScan(points, mount, HOUSE_MOUNT_MAX - 1, -1)
        found == scan.i >= 0
        i == IF found THEN scan.i
             ELSE IF scan.available < 0 THEN 0 ELSE scan.available
        changed == IF found
                   THEN points[i].dev /= dev \/ points[i].fs /= fs
                   ELSE TRUE
    IN  [points EXCEPT
            ![i].dev = dev, ![i].mount = mount, ![i].fs = fs,
            ![i].detected = t,
            ![i].metrics.timestamp =
                IF changed THEN Zeroes(HOUSE_MOUNT_SPAN) ELSE @]

\* A variant that looks for the mount point among the entries above the
\* first free one only.
houselinux_storage_register_mount_blind(points, t, dev, mount, fs) ==
    LET free == { k \in 0..(HOUSE_MOUNT_MAX - 1) : points[k].detected <= 0 }
        top == IF free = {} THEN -1
               ELSE CHOOSE k \in free : \A f \in free : f <= k
        scan == IF top < 0
                THEN RegisterScan(points, mount, HOUSE_MOUNT_MAX - 1, -1)
                ELSE [i |-> -1, available |-> top]
        found == scan.i >= 0
        i == IF found THEN scan.i ELSE scan.available
        changed == IF found
                   THEN points[i].dev /= dev \/ points[i].fs /= fs
                   ELSE TRUE
    IN  IF ~found /\ scan.available < 0 THEN points
        ELSE [points EXCEPT
                 ![i].dev = dev, ![i].mount = mount, ![i].fs = fs,
                 ![i].detected = t,
                 ![i].metrics.timestamp =
                     IF changed THEN Zeroes(HOUSE_MOUNT_SPAN) ELSE @]

houselinux_storage_register_mount(points, t, dev, mount, fs) ==
    LET scan == RegisterScan(points, mount, HOUSE_MOUNT_MAX - 1, -1)
        found == scan.i >= 0
        i == IF found THEN scan.i ELSE scan.available
        changed == IF found
                   THEN points[i].dev /= dev \/ points[i].fs /= fs
                   ELSE TRUE
    IN  IF ~found /\ scan.available < 0 THEN points
        ELSE [points EXCEPT
                 ![i].dev = dev, ![i].mount = mount, ![i].fs = fs,
                 ![i].detected = t,
                 ![i].metrics.timestamp =
                     IF changed THEN Zeroes(HOUSE_MOUNT_SPAN) ELSE @]

\* A variant that frees the entry and leaves its strings in place.
houselinux_storage_prune_mount_keep(points, t) ==
    [i \in 0..(HOUSE_MOUNT_MAX - 1) |->
        IF points[i].detected > 0 /\ points[i].detected < t
        THEN [points[i] EXCEPT !.detected = 0]
        ELSE points[i]]

houselinux_storage_prune_mount(points, t) ==
    [i \in 0..(HOUSE_MOUNT_MAX - 1) |->
        IF points[i].detected > 0 /\ points[i].detected < t
        THEN [points[i] EXCEPT !.detected = 0, !.dev = NullString,
                               !.mount = NullString, !.fs = NullString]
        ELSE points[i]]

\* The lines that houselinux_storage_enumerate does not register.
NotStorage(line) ==
    \/ houselinux_storage_path_match(line.mount, "/sys", line.after)
    \/ houselinux_storage_path_match(line.mount, "/proc", line.after)
    \/ houselinux_storage_path_match(line.mount, "/run", line.after)
    \/ /\ houselinux_storage_path_match(line.mount, "/dev", line.after)
       /\ line.mount /= "/dev/shm"

\* The loop of houselinux_storage_enumerate over the lines of the file: the
\* lines of the first half, then, from the table that these leave, those of
\* the second.
RECURSIVE EnumerateLines(_, _, _)
EnumerateLines(points, lines, t) ==
    IF lines = <<>> THEN points
    ELSE IF Len(lines) = 1
    THEN LET line == Head(lines)
         IN  IF NotStorage(line) THEN points
             ELSE houselinux_storage_register_mount(
                      points, t, line.dev, line.mount, line.fs)
    ELSE LET half == Len(lines) \div 2
         IN  CHOOSE last \in
                 { EnumerateLines(first, SubSeq(lines, half + 1, Len(lines)), t) :
                       first \in { EnumerateLines(points,
                                                  SubSeq(lines, 1, half), t) } } :
                 TRUE

\* The mount points after houselinux_storage_enumerate, once it is due.
houselinux_storage_enumerate(points, t, file) ==
    IF ~file.ok THEN points
    ELSE houselinux_storage_prune_mount(EnumerateLines(points, file.v, t), t)

StorageIndex(t) == (t \div HOUSE_MOUNT_PERIOD) % HOUSE_MOUNT_SPAN

\* The loop of houselinux_storage_background over the mount points.
StorageCollect(points, t, statvfs) ==
    [i \in 0..(HOUSE_MOUNT_MAX - 1) |->
        IF points[i].detected <= 0 THEN points[i]
        ELSE LET storage == statvfs[points[i].mount]
             IN  IF ~storage.ok THEN points[i]
                 ELSE [points[i] EXCEPT
                          !.metrics.size =
                              CDiv(houselinux_storage_total(storage),
                                   1024 * 1024),
                          !.metrics.free[StorageIndex(t)] =
                              CDiv(houselinux_storage_free(storage),
                                   1024 * 1024),
                          !.metrics.timestamp[StorageIndex(t)] = t]]

\* A variant that is due one period after the date it was due, not after
\* the call: it makes up for the periods it missed.
houselinux_storage_background_catchup(t, s) ==
    IF t < NextCollect THEN UNCHANGED storageVars
    ELSE
        /\ NextCollect' = IF NextCollect = 0 THEN t + HOUSE_MOUNT_PERIOD
                          ELSE NextCollect + HOUSE_MOUNT_PERIOD
        /\ NextStorageEnumerate' =
               IF t < NextStorageEnumerate THEN NextStorageEnumerate
               ELSE t + 60
        /\ HouseMountPoints' =
               StorageCollect(
                   IF t < NextStorageEnumerate THEN HouseMountPoints
                   ELSE houselinux_storage_enumerate(HouseMountPoints, t,
                                                     s.mountinfo),
                   t, s.statvfs)

houselinux_storage_background(t, s) ==
    IF t < NextCollect THEN UNCHANGED storageVars
    ELSE
        /\ NextCollect' = t + HOUSE_MOUNT_PERIOD
        /\ NextStorageEnumerate' =
               IF t < NextStorageEnumerate THEN NextStorageEnumerate
               ELSE t + 60
        /\ HouseMountPoints' =
               StorageCollect(
                   IF t < NextStorageEnumerate THEN HouseMountPoints
                   ELSE houselinux_storage_enumerate(HouseMountPoints, t,
                                                     s.mountinfo),
                   t, s.statvfs)

\* The static storage of the family.
StorageInit ==
    /\ HouseMountPoints = [i \in 0..(HOUSE_MOUNT_MAX - 1) |-> NoMountPoint]
    /\ NextStorageEnumerate = 0
    /\ NextCollect = 0

\* The entries that the loop of houselinux_storage_status does not skip, in
\* the order of the table.
StorageVolumes ==
    SelectSeq([n \in 1..HOUSE_MOUNT_MAX |-> HouseMountPoints[n - 1]],
              LAMBDA point : point.detected /= 0 /\ point.metrics.size /= 0)

\* The body of that loop over the entries left, from the destination st;
\* gives the destination and saved as the loop leaves them.
RECURSIVE StorageStatusLoop(_, _, _, _, _)
StorageStatusLoop(list, st, saved, sep, sz) ==
    IF list = <<>> THEN [st |-> st, saved |-> saved]
    ELSE LET point == Head(list)
             st1 == Snprintf(st, sz, sep \o "\"" \o point.mount
                                 \o "\":{\"size\":[" \o Lld(point.metrics.size)
                                 \o ",\"MB\"]")
             st2 == ReduceJsonAt(st1, sz, "free", point.metrics.free,
                                 HOUSE_MOUNT_SPAN, "MB")
             st3 == Snprintf(st2, sz, "}")
         IN  IF st1.cursor >= sz THEN [st |-> st1, saved |-> saved]
             ELSE IF st3.cursor >= sz THEN [st |-> st3, saved |-> saved]
             ELSE StorageStatusLoop(Tail(list), st3, st3.cursor, ",", sz)

\* houselinux_storage_status: the returned length and the bytes left in the
\* destination.
houselinux_storage_status(sz) ==
    LET st0 == SnprintfAt0(sz, ",\"storage\":{")
        loop == StorageStatusLoop(StorageVolumes, st0, st0.cursor, "", sz)
        last == Snprintf([buf |-> loop.st.buf, cursor |-> loop.saved],
                         sz, "}")
    IN  IF st0.cursor >= sz THEN Returned(0, st0)
        ELSE Returned(last.cursor, last)

-----------------------------------------------------------------------------
(* houselinux_temp.c                                                       *)

HOUSE_TEMP_PERIOD == 5
HOUSE_TEMP_SPAN == 60

\* houselinux_temp_read: the value of the file, 0 if it cannot be opened.
houselinux_temp_read(file) == IF file.ok THEN file.v ELSE 0

TempIndex(t) == (t \div HOUSE_TEMP_PERIOD) % HOUSE_TEMP_SPAN

\* The collection interval of the sensor log.
TempInterval == HOUSE_TEMP_PERIOD * HOUSE_TEMP_SPAN

\* NextTempRecord once the first call has set it (lines 223-234).
TempFirstRecord(t) ==
    IF (t + TempInterval) % TempInterval /= 0
    THEN (t + TempInterval) - ((t + TempInterval) % TempInterval)
             + TempInterval
    ELSE t + TempInterval

houselinux_temp_background(t, s) ==
    LET due == IF NextTempRecord = 0 THEN TempFirstRecord(t)
               ELSE NextTempRecord
    IN  /\ IF t >= NextTempCollect
           THEN /\ NextTempCollect' = t + HOUSE_TEMP_PERIOD
                /\ HouseTempLatest' =
                       [HouseTempLatest EXCEPT
                           !.cpu[TempIndex(t)] =
                               IF HouseTempCpuPath /= ""
                               THEN houselinux_temp_read(s.tempcpu) ELSE @,
                           !.gpu[TempIndex(t)] =
                               IF HouseTempGpuPath /= ""
                               THEN houselinux_temp_read(s.tempgpu) ELSE @,
                           !.timestamp[TempIndex(t)] = t]
           ELSE UNCHANGED <<NextTempCollect, HouseTempLatest>>
        /\ NextTempRecord' = IF t >= due THEN t + TempInterval ELSE due
        /\ UNCHANGED <<HouseTempCpuPath, HouseTempGpuPath>>

\* The state after houselinux_temp_initialize, which found the sensors of
\* the given names in /sys/class/hwmon, in that order.
TempPath(i) == "/sys/class/hwmon/hwmon" \o ToString(i) \o "/temp1_input"

RECURSIVE TempSensorPath(_, _, _, _)
TempSensorPath(names, i, kinds, path) ==
    IF i >= Len(names) \/ i >= 32 THEN path
    ELSE TempSensorPath(names, i + 1, kinds,
                        IF names[i + 1] \in kinds THEN TempPath(i) ELSE path)

TempInit(names) ==
    /\ HouseTempLatest = [timestamp |-> Zeroes(HOUSE_TEMP_SPAN),
                          cpu |-> Zeroes(HOUSE_TEMP_SPAN),
                          gpu |-> Zeroes(HOUSE_TEMP_SPAN)]
    /\ HouseTempCpuPath =
           TempSensorPath(names, 0, {"k10temp", "cpu_thermal", "coretemp"}, "")
    /\ HouseTempGpuPath =
           TempSensorPath(names, 0, {"amdgpu", "radeon"}, "")
    /\ NextTempCollect = 0
    /\ NextTempRecord = 0

-----------------------------------------------------------------------------
(* houselinux_reduce_details_json: declared in houselinux_reduce.h, called  *)
(* by every details function, defined in no source file at hand. Modelled   *)
(* from its description: the slots are walked from (now/step + 1) % count,  *)
(* wrapping to (now/step) % count; a slot is listed when its timestamp is   *)
(* not 0 and is > since (since = 0: no cutoff). Gives the listed            *)
(* <<timestamp, value>> pairs in the order of the walk.                     *)

houselinux_reduce_details_json(since, t, step, count, timestamps, vals) ==
    LET first == ((t \div step) + 1) % count
        walk == [n \in 1..count |->
                    <<timestamps[(first + n - 1) % count],
                      vals[(first + n - 1) % count]>>]
        listed(p) == p[1] /= 0 /\ (since = 0 \/ p[1] > since)
    IN  SelectSeq(walk, listed)

\* A variant that ignores the since parameter of the request.
houselinux_cpu_details_nosince(t, since) ==
    << houselinux_reduce_details_json(0, t, HOUSE_CPU_PERIOD,
           HOUSE_CPU_SPAN, HouseCpuLatest.timestamp, HouseCpuLatest.busy),
       houselinux_reduce_details_json(0, t, HOUSE_CPU_PERIOD,
           HOUSE_CPU_SPAN, HouseCpuLatest.timestamp, HouseCpuLatest.iowait),
       houselinux_reduce_details_json(0, t, HOUSE_CPU_PERIOD,
           HOUSE_CPU_SPAN, HouseCpuLatest.timestamp, HouseCpuLatest.steal) >>

\* houselinux_cpu_details: the pairs listed for busy, iowait and steal. The
\* destination holds 65537 bytes, more than three series of 60 pairs need.
houselinux_cpu_details(t, since) ==
    << houselinux_reduce_details_json(since, t, HOUSE_CPU_PERIOD,
           HOUSE_CPU_SPAN, HouseCpuLatest.timestamp, HouseCpuLatest.busy),
       houselinux_reduce_details_json(since, t, HOUSE_CPU_PERIOD,
           HOUSE_CPU_SPAN, HouseCpuLatest.timestamp, HouseCpuLatest.iowait),
       houselinux_reduce_details_json(since, t, HOUSE_CPU_PERIOD,
           HOUSE_CPU_SPAN, HouseCpuLatest.timestamp, HouseCpuLatest.steal) >>

-----------------------------------------------------------------------------
(* The environment: the clock, the pseudo-files and the requests.          *)

\* The cumulative counters of the "cpu" line of /proc/stat: user, nice,
\* system, idle, iowait, irq, softirq, steal, guest, guest_nice.
CpuA == <<100, 0, 50, 800, 50, 0, 0, 0, 0, 0>>
CpuB == <<130, 0, 70, 840, 60, 0, 0, 0, 0, 0>>
CpuC == <<140, 5, 75, 900, 65, 5, 0, 10, 3, 7>>

\* The counters of a line, C-indexed from 0.
Counters(list) == [i \in 0..(Len(list) - 1) |-> list[i + 1]]

\* Lines of /proc/diskstats. The counters are reads completed, reads merged,
\* sectors read, ms reading, writes completed, writes merged, sectors
\* written, ms writing; the fields after these are read by no sample.
DiskLine(major, minor, device, list) ==
    [major |-> major, minor |-> minor, device |-> device,
     value |-> Counters(list)]

SdaA == DiskLine(8, 0, "sda", <<1000, 0, 8000, 500, 200, 0, 1600, 300>>)
SdaB == DiskLine(8, 0, "sda", <<1100, 0, 8800, 900, 203, 0, 1624, 330>>)
SdaC == DiskLine(8, 0, "sda", <<1100, 0, 8800, 900, 210, 0, 1680, 333>>)
Sda1 == DiskLine(8, 1, "sda1", <<900, 0, 7000, 400, 100, 0, 800, 100>>)
SdbA == DiskLine(8, 16, "sdb", <<50, 0, 400, 20, 0, 0, 0, 0>>)
SdbB == DiskLine(8, 16, "sdb", <<57, 0, 456, 41, 0, 0, 0, 0>>)

\* Lines of /proc/net/dev: received bytes at 0, transmitted bytes at 8.
NetLine(device, rx, tx) ==
    [device |-> device,
     value |-> [i \in 0..8 |-> IF i = 0 THEN rx ELSE IF i = 8 THEN tx ELSE 0]]

Lo == NetLine("lo", 4000, 4000)
EthA == NetLine("eth0", 1000000, 500000)
EthB == NetLine("eth0", 1051200, 505120)
EthC == NetLine("eth0", 1049700, 505120)
WlanA == NetLine("wlan0", 7000, 9000)

\* Lines of /proc/self/mountinfo; the mount options follow the mount field.
MountLine(mount, fs, dev) ==
    [mount |-> mount, fs |-> fs, dev |-> dev, after |-> "r"]

MountsA ==
    << MountLine("/sys", "sysfs", "sysfs"), MountLine("/proc", "proc", "proc"),
       MountLine("/dev", "devtmpfs", "udev"),
       MountLine("/dev/shm", "tmpfs", "tmpfs"),
       MountLine("/run/lock", "tmpfs", "tmpfs"),
       MountLine("/", "ext4", "/dev/sda2"),
       MountLine("/home", "ext4", "/dev/sda3") >>

MountsB ==
    << MountLine("/", "ext4", "/dev/sdb2"),
       MountLine("/boot", "vfat", "/dev/sda1"),
       MountLine("/syx", "ext4", "/dev/sdb3") >>

MountNames == {"/", "/home", "/boot", "/dev/shm", "/syx", "/sys", "/proc",
               "/dev", "/run/lock"}

Statvfs(blocks, frsize, bavail, bsize) ==
    [ok |-> TRUE, f_blocks |-> blocks, f_frsize |-> frsize,
     f_bavail |-> bavail, f_bsize |-> bsize]

NoStatvfs == [ok |-> FALSE, f_blocks |-> 0, f_frsize |-> 0, f_bavail |-> 0,
              f_bsize |-> 0]

StatvfsA ==
    [m \in MountNames |->
        IF m = "/" THEN Statvfs(51200, 4096, 25600, 4096)
        ELSE IF m = "/home" THEN Statvfs(102400, 4096, 1000, 4096)
        ELSE IF m = "/dev/shm" THEN Statvfs(2048, 4096, 2048, 4096)
        ELSE IF m = "/boot" THEN Statvfs(65536, 512, 30000, 1024)
        ELSE Statvfs(0, 4096, 0, 4096)]

StatvfsB ==
    [m \in MountNames |->
        IF m = "/" THEN Statvfs(51200, 4096, 25000, 4096)
        ELSE IF m = "/boot" THEN Statvfs(65536, 512, 29000, 1024)
        ELSE IF m = "/syx" THEN Statvfs(20480, 4096, 20000, 4096)
        ELSE NoStatvfs]

MeminfoA ==
    << <<"MemTotal", 8000000>>, <<"MemFree", 123456>>,
       <<"MemAvailable", 4000000>>, <<"Dirty", 2048>>,
       <<"SwapTotal", 2000000>>, <<"SwapFree", 1500000>> >>

MeminfoB ==
    << <<"MemTotal", 8000000>>, <<"MemAvailable", 3000000>>,
       <<"Dirty", 500>> >>

NoTemp == [ok |-> FALSE, v |-> 0]

\* What one houselinux_background call finds in the files that the families
\* read.
NoSource ==
    [stat |-> Unreadable, loadavg |-> Unreadable, diskstats |-> Unreadable,
     netdev |-> Unreadable, meminfo |-> Unreadable, mountinfo |-> Unreadable,
     statvfs |-> [m \in MountNames |-> NoStatvfs],
     tempcpu |-> NoTemp, tempgpu |-> NoTemp]

SourceA ==
    [stat |-> File(CpuA), loadavg |-> File(<<52, 48, 45>>),
     diskstats |-> File(<<SdaA, Sda1>>),
     netdev |-> File(<<Lo, EthA>>),
     meminfo |-> File(MeminfoA), mountinfo |-> File(MountsA),
     statvfs |-> StatvfsA,
     tempcpu |-> File(45000), tempgpu |-> File(38000)]

SourceB ==
    [stat |-> File(CpuB), loadavg |-> Unreadable,
     diskstats |-> File(<<SdaB, Sda1, SdbA>>),
     netdev |-> File(<<Lo, EthB, WlanA>>),
     meminfo |-> File(MeminfoB), mountinfo |-> File(MountsB),
     statvfs |-> StatvfsB,
     tempcpu |-> File(47000), tempgpu |-> NoTemp]

SourceC ==
    [stat |-> File(CpuC), loadavg |-> File(<<0, 0, 0>>),
     diskstats |-> File(<<SdbB, SdaC>>),
     netdev |-> File(<<EthC>>),
     meminfo |-> File(MeminfoA), mountinfo |-> File(MountsA),
     statvfs |-> StatvfsB,
     tempcpu |-> NoTemp, tempgpu |-> File(39000)]

Sources == {NoSource, SourceA, SourceB, SourceC}

\* What the initialize functions found at start: /proc/diskstats,
\* /proc/net/dev, the names of the hwmon sensors, and the content of the
\* memory that realloc returned.
Boots ==
    { [diskstats |-> Unreadable, netdev |-> Unreadable, sensors |-> <<>>,
       fresh |-> Zeroes(HOUSE_DISKIO_SPAN)] }
    \cup
    { [diskstats |-> SourceA.diskstats, netdev |-> SourceA.netdev,
       sensors |-> sn, fresh |-> fr] :
         sn \in { <<"acpitz", "coretemp", "amdgpu">>, <<"cpu_thermal">> },
         fr \in FreshArrays(HOUSE_DISKIO_SPAN) }

\* Seconds between two houselinux_background calls.
TimeSteps == {0, 3, 5, 300}

StartTimes == {0, 1000000007}

\* No request was served since the latest background call.
NoOutput == [op |-> "none", t |-> 0, since |-> 0, size |-> 0]

\* The static buffer of houselinux_status before it was ever computed.
NoDocument == [timestamp |-> 0, metrics |-> <<>>]

\* The static storage of houselinux.c when main enters its loop; enabled is
\* 0 when -metrics-no-store was given (main), 1 otherwise.
MetricsInit(enabled) ==
    /\ HouseMetricsStoreEnabled = enabled
    /\ NextMetricsStore = 0
    /\ generated = 0
    /\ buffer = NoDocument
    /\ flushed = <<>>

EnvInit ==
    /\ now \in StartTimes
    /\ ticks = 0
    /\ src = NoSource
    /\ out = NoOutput
    /\ MetricsInit(1)

ReduceIdle ==
    /\ values = <<0>> /\ name = "" /\ unit = "" /\ size = 0
    /\ result = [ret |-> -1, buffer |-> "?"]

\* The families other than the CPU, as a machine without disks, network
\* devices and sensors has them.
OthersIdle ==
    /\ DiskInit(Unreadable, Zeroes(HOUSE_DISKIO_SPAN))
    /\ NetInit(Unreadable, Zeroes(HOUSE_NETIO_SPAN))
    /\ MemoryInit
    /\ StorageInit
    /\ TempInit(<<>>)

otherVars == <<diskVars, netVars, memoryVars, storageVars, tempVars,
               metricsVars>>

\* The files that a background call at time t reads, as s has them; the
\* others as they were read last.
SourceRead(t, s) ==
    [stat |-> IF t < NextCpuCollect THEN src.stat ELSE s.stat,
     loadavg |-> IF t < NextCpuCollect \/ NextCpuCollect = 0
                 THEN src.loadavg ELSE s.loadavg,
     diskstats |-> IF t < NextDiskIOCollect \/ NextDiskIOCollect = 0
                   THEN src.diskstats ELSE s.diskstats,
     netdev |-> IF t < NextNetIOCollect \/ NextNetIOCollect = 0
                THEN src.netdev ELSE s.netdev,
     meminfo |-> IF t < NextMemoryCollect THEN src.meminfo ELSE s.meminfo,
     mountinfo |-> IF t < NextCollect \/ t < NextStorageEnumerate
                   THEN src.mountinfo ELSE s.mountinfo,
     statvfs |-> IF t < NextCollect THEN src.statvfs ELSE s.statvfs,
     tempcpu |-> IF t < NextTempCollect \/ HouseTempCpuPath = ""
                 THEN src.tempcpu ELSE s.tempcpu,
     tempgpu |-> IF t < NextTempCollect \/ HouseTempGpuPath = ""
                 THEN src.tempgpu ELSE s.tempgpu]

\* The size handed to a family status function by houselinux_status: what is
\* left of its 65537 bytes after the header.
StatusSize == 65537 - 64

\* One houselinux_background call, as far as the CPU family goes.
CpuTick ==
    /\ ticks < MaxTicks
    /\ \E dt \in TimeSteps, s \in Sources :
        /\ now' = now + dt
        /\ src' = [src EXCEPT !.stat = SourceRead(now + dt, s).stat,
                              !.loadavg = SourceRead(now + dt, s).loadavg]
        /\ houselinux_cpu_background(now + dt, s)
    /\ ticks' = ticks + 1
    /\ out' = NoOutput
    /\ UNCHANGED <<reduceVars, otherVars>>

\* A status request. The call changes nothing of the family: out keeps its
\* arguments, and CpuStatusReply is what it returns.
CpuStatus ==
    /\ out' = [op |-> "status", t |-> now, since |-> 0, size |-> StatusSize]
    /\ UNCHANGED <<reduceVars, now, ticks, src, cpuVars, otherVars>>

CpuStatusReply == houselinux_cpu_status(out.size)

\* A details request at the time of the latest background call, with the
\* since parameter of the client; CpuDetailsReply is what it lists.
CpuDetails ==
    /\ \E since \in {0, now, now - HOUSE_CPU_PERIOD, now - 3} :
        /\ since >= 0
        /\ out' = [op |-> "details", t |-> now, since |-> since,
                   size |-> StatusSize]
    /\ UNCHANGED <<reduceVars, now, ticks, src, cpuVars, otherVars>>

CpuDetailsReply == houselinux_cpu_details(out.t, out.since)

CpuNext == CpuTick \/ CpuStatus \/ CpuDetails

CpuSpecInit == ReduceIdle /\ EnvInit /\ CpuInit /\ OthersIdle

SpecCpu == CpuSpecInit /\ [][CpuNext]_vars

-----------------------------------------------------------------------------
(* The six families together: houselinux_background hands the same time to *)
(* each of them.                                                           *)

\* A variant that takes a document of 10 seconds for a recent one.
houselinux_status_stale(uri, t) ==
    IF uri /\ t - generated <= 10
    THEN [generated |-> generated, buffer |-> buffer]
    ELSE [generated |-> t,
          buffer |-> [timestamp |-> t,
                      metrics |-> <<HouseCpuLatest, HouseMemoryLatest,
                                    HouseMountPoints, HouseDiskIOLatest,
                                    HouseNetIOLatest, HouseTempLatest>>]]

\* houselinux_status (method, uri, data, length) at time t: the static
\* generated and buffer as the call leaves them; the document it returns is
\* the buffer. The document is the header with the timestamp, then the
\* fragments that the six family status functions compute from their
\* series: it is kept as the timestamp and the series it was computed from.
houselinux_status(uri, t) ==
    IF uri /\ t - generated < 10
    THEN [generated |-> generated, buffer |-> buffer]
    ELSE [generated |-> t,
          buffer |-> [timestamp |-> t,
                      metrics |-> <<HouseCpuLatest, HouseMemoryLatest,
                                    HouseMountPoints, HouseDiskIOLatest,
                                    HouseNetIOLatest, HouseTempLatest>>]]

\* A variant that advances the deadline from the time of the call: the
\* deadlines leave the 5 minutes marks.
MetricsStore_unaligned(t) ==
    /\ UNCHANGED HouseMetricsStoreEnabled
    /\ IF HouseMetricsStoreEnabled /= 0 /\ t >= NextMetricsStore
       THEN IF NextMetricsStore = 0
            THEN /\ NextMetricsStore' = t - (t % 300) + 600
                 /\ UNCHANGED <<generated, buffer, flushed>>
            ELSE LET status == houselinux_status(FALSE, t)
                 IN  /\ NextMetricsStore' = t + 300
                     /\ generated' = status.generated
                     /\ buffer' = status.buffer
                     /\ flushed' = Append(flushed, t)
       ELSE UNCHANGED <<NextMetricsStore, generated, buffer, flushed>>

\* The metrics store of houselinux_background at time t: the first call sets
\* the deadline, a later call at or past the deadline moves it by 300 and
\* flushes the status document to the log.
MetricsStore(t) ==
    /\ UNCHANGED HouseMetricsStoreEnabled
    /\ IF HouseMetricsStoreEnabled /= 0 /\ t >= NextMetricsStore
       THEN IF NextMetricsStore = 0
            THEN /\ NextMetricsStore' = t - (t % 300) + 600
                 /\ UNCHANGED <<generated, buffer, flushed>>
            ELSE LET status == houselinux_status(FALSE, t)
                 IN  /\ NextMetricsStore' = NextMetricsStore + 300
                     /\ generated' = status.generated
                     /\ buffer' = status.buffer
                     /\ flushed' = Append(flushed, t)
       ELSE UNCHANGED <<NextMetricsStore, generated, buffer, flushed>>

houselinux_background(t, s) ==
    /\ MetricsStore(t)
    /\ houselinux_cpu_background(t, s)
    /\ houselinux_memory_background(t, s)
    /\ houselinux_storage_background(t, s)
    /\ houselinux_diskio_background(t, s)
    /\ houselinux_netio_background(t, s)
    /\ houselinux_temp_background(t, s)

Background ==
    /\ ticks < MaxTicks
    /\ \E dt \in TimeSteps, s \in Sources :
        /\ now' = now + dt
        /\ src' = SourceRead(now + dt, s)
        /\ houselinux_background(now + dt, s)
    /\ ticks' = ticks + 1
    /\ out' = NoOutput
    /\ UNCHANGED reduceVars

\* The state when main enters its loop: every family was initialized.
Init ==
    /\ ReduceIdle
    /\ EnvInit
    /\ CpuInit
    /\ MemoryInit
    /\ StorageInit
    /\ \E boot \in Boots :
        /\ DiskInit(boot.diskstats, boot.fresh)
        /\ NetInit(boot.netdev, boot.fresh)
        /\ TempInit(boot.sensors)

Next == Background

Spec == Init /\ [][Next]_vars

-----------------------------------------------------------------------------
(* The reduce harness: the inputs of one houselinux_reduce_json call.      *)

NoResult == [ret |-> -1, buffer |-> "?"]

Tables == << <<0, 0, 0, 0>>, <<7, 7, 7, 7>>, <<-3, 0, 5, 12>>,
             <<4, -8, -8, 1>>, <<-5, -5, -5, -5>> >>

TableWidth == Len(Tables[1])

GenValues(count, tbl, mul, off, m) ==
    [i \in 1..count |-> Tables[tbl][(((i * mul + off) % m) % TableWidth) + 1]]

Generated ==
    { GenValues(c, t, mul, off, m) :
        c \in 1..MaxCount, t \in 1..Len(Tables), mul \in 1..3, off \in 0..3,
        m \in 1..MaxMod }

SmallValues == {-3, 0, 5}

Exhaustive == UNION { [1..c -> SmallValues] : c \in 1..MaxExhaustive }

ReduceInputs == Generated \cup Exhaustive

Fields == { <<"busy", "%">>, <<"rdrate", "r/s">> }

ReduceInit ==
    /\ values \in ReduceInputs
    /\ \E f \in Fields : name = f[1] /\ unit = f[2]
    /\ size = 0
    /\ result = NoResult
    /\ now = 0 /\ ticks = 0 /\ src = NoSource /\ out = NoOutput
    /\ MetricsInit(1)
    /\ CpuInit
    /\ OthersIdle

\* One call of houselinux_reduce_json on the harness inputs. Every caller in
\* the program hands a size >= 1 (it returns before the call once its cursor
\* has reached its own size).
Reduce ==
    /\ result = NoResult
    /\ \E sz \in 1..MaxSize :
        /\ size' = sz
        /\ result' = houselinux_reduce_json(sz, name, values, Len(values), unit)
    /\ UNCHANGED <<values, name, unit, envVars, cpuVars, otherVars>>

ReduceNext == Reduce

SpecReduce == ReduceInit /\ [][ReduceNext]_vars

-----------------------------------------------------------------------------
(* What a reduction is meant to report, stated on the caller's array       *)
(* without sorting it.                                                     *)

Called == result /= NoResult

Count == Len(values)

ValueSet == { values[i] : i \in 1..Count }

TrueMin == CHOOSE v \in ValueSet : \A w \in ValueSet : v <= w

TrueMax == CHOOSE v \in ValueSet : \A w \in ValueSet : w <= v

\* The k-th smallest value (k counted from 0), duplicates counted.
OrderStat(k) ==
    CHOOSE v \in ValueSet :
        /\ Cardinality({ i \in 1..Count : values[i] < v }) <= k
        /\ k < Cardinality({ i \in 1..Count : values[i] <= v })

TrueMedian ==
    IF Count % 2 = 1 THEN OrderStat(Count \div 2)
    ELSE LET sum == OrderStat((Count \div 2) - 1) + OrderStat(Count \div 2)
         IN  IF sum >= 0 THEN sum \div 2 ELSE -((-sum) \div 2)

AllEqual == TrueMin = TrueMax

Prefix(name_unit) == ",\"" \o name_unit[1] \o "\":["

Suffix(name_unit) == ",\"" \o name_unit[2] \o "\"]"

Frag1(v) == Prefix(<<name, unit>>) \o ToString(v) \o Suffix(<<name, unit>>)

Frag2(lo, hi) ==
    Prefix(<<name, unit>>) \o ToString(lo) \o "," \o ToString(hi)
        \o Suffix(<<name, unit>>)

Frag3(lo, mid, hi) ==
    Prefix(<<name, unit>>) \o ToString(lo) \o "," \o ToString(mid) \o ","
        \o ToString(hi) \o Suffix(<<name, unit>>)

ExpectedFragment ==
    IF AllEqual THEN (IF TrueMin = 0 THEN "" ELSE Frag1(TrueMin))
    ELSE IF Count >= 10 THEN Frag3(TrueMin, TrueMedian, TrueMax)
    ELSE Frag2(TrueMin, TrueMax)

IsPrefixOf(a, b) == Len(a) <= Len(b) /\ SubSeq(b, 1, Len(a)) = a

\* The call returned a nonzero length: the whole fragment is in the buffer.
Fits == Called /\ result.ret > 0

\* C1: with count >= 10 and values not all equal, the fragment is
\* ,"name":[min,median,max,"unit"] with the true minimum and maximum and the
\* median of the ascending order (middle element for an odd count, average of
\* the two middle elements truncated toward zero for an even count), so that
\* min <= median <= max; a fragment that does not fit is a prefix of it.
C1_MinMedianMax ==
    (Called /\ Count >= 10 /\ ~AllEqual) =>
        /\ TrueMin <= TrueMedian /\ TrueMedian <= TrueMax
        /\ IsPrefixOf(result.buffer, Frag3(TrueMin, TrueMedian, TrueMax))
        /\ Fits => result.buffer = Frag3(TrueMin, TrueMedian, TrueMax)

\* An even count whose two middle elements have a negative odd sum, reduced
\* into a buffer that holds the whole fragment.
C1_Witness ==
    /\ Fits /\ Count = 10 /\ ~AllEqual
    /\ (OrderStat(4) + OrderStat(5)) % 2 = 1
    /\ OrderStat(4) + OrderStat(5) < 0
    /\ result.buffer = Frag3(TrueMin, TrueMedian, TrueMax)

\* C2: with count < 10 and values not all equal, the fragment is exactly
\* ,"name":[min,max,"unit"] with the true minimum and maximum, and no median.
C2_MinMax ==
    (Called /\ Count < 10 /\ ~AllEqual) =>
        /\ TrueMin <= TrueMax
        /\ IsPrefixOf(result.buffer, Frag2(TrueMin, TrueMax))
        /\ Fits => result.buffer = Frag2(TrueMin, TrueMax)

\* Nine values that are not all equal, reduced into a buffer that holds it.
C2_Witness ==
    /\ Fits /\ Count = 9 /\ ~AllEqual
    /\ result.buffer = Frag2(TrueMin, TrueMax)

\* C3: values all equal to the same nonzero v give the collapsed form
\* ,"name":[v,"unit"] whatever the count, below or above 10.
C3_Collapsed ==
    (Called /\ AllEqual /\ TrueMin /= 0) =>
        /\ IsPrefixOf(result.buffer, Frag1(values[1]))
        /\ Fits => result.buffer = Frag1(values[1])

\* Ten or more equal nonzero values, collapsed.
C3_Witness ==
    /\ Fits /\ Count >= 10 /\ AllEqual /\ TrueMin /= 0
    /\ result.buffer = Frag1(values[1])

\* C4: values that are all zero give the empty string and the return value 0.
C4_AllZeroEmpty ==
    (Called /\ \A i \in 1..Count : values[i] = 0) =>
        result.buffer = "" /\ result.ret = 0

\* A reduced array of several zeros.
C4_Witness ==
    /\ Called /\ Count >= 2 /\ \A i \in 1..Count : values[i] = 0
    /\ result.ret = 0

\* C5: the call returns the fragment length L when L < size and 0 when
\* L >= size, hence never a value >= size.
C5_ReturnFitsOrZero ==
    Called =>
        /\ (Len(ExpectedFragment) < size => result.ret = Len(ExpectedFragment))
        /\ (Len(ExpectedFragment) >= size => result.ret = 0)
        /\ result.ret < size

\* A fragment exactly as long as the destination: it does not fit.
C5_Witness ==
    /\ Called /\ Len(ExpectedFragment) = size /\ result.ret = 0

-----------------------------------------------------------------------------
(* The ring buffers of the six families.                                   *)

\* A slot that holds a timestamp holds it at the index of that time.
SlotOk(t, i, period, span) == t /= 0 => (t \div period) % span = i

CpuSlotsOk ==
    \A i \in 0..(HOUSE_CPU_SPAN - 1) :
        SlotOk(HouseCpuLatest.timestamp[i], i, HOUSE_CPU_PERIOD,
               HOUSE_CPU_SPAN)

TempSlotsOk ==
    \A i \in 0..(HOUSE_TEMP_SPAN - 1) :
        SlotOk(HouseTempLatest.timestamp[i], i, HOUSE_TEMP_PERIOD,
               HOUSE_TEMP_SPAN)

MemorySlotsOk ==
    \A i \in 0..(HOUSE_MEMORY_SPAN - 1) :
        SlotOk(HouseMemoryLatest[i].timestamp, i, HOUSE_MEMORY_PERIOD,
               HOUSE_MEMORY_SPAN)

StorageSlotsOk ==
    \A v \in 0..(HOUSE_MOUNT_MAX - 1), i \in 0..(HOUSE_MOUNT_SPAN - 1) :
        SlotOk(HouseMountPoints[v].metrics.timestamp[i], i,
               HOUSE_MOUNT_PERIOD, HOUSE_MOUNT_SPAN)

DiskSlotsOk ==
    \A d \in 1..Len(HouseDiskIOLatest), i \in 0..(HOUSE_DISKIO_SPAN - 1) :
        SlotOk(HouseDiskIOLatest[d].timestamps[i], i, HOUSE_DISKIO_PERIOD,
               HOUSE_DISKIO_SPAN)

NetSlotsOk ==
    \A d \in 1..Len(HouseNetIOLatest), i \in 0..(HOUSE_NETIO_SPAN - 1) :
        SlotOk(HouseNetIOLatest[d].timestamps[i], i, HOUSE_NETIO_PERIOD,
               HOUSE_NETIO_SPAN)

\* C6: in every reachable state, each slot i of each family whose timestamp
\* t is nonzero satisfies (t / PERIOD) % SPAN = i (CPU, disk, network,
\* temperature: 5 and 60; memory: 10 and 30; storage: 60 and 5). The slots
\* of a disk or network device are not cleared when the device is added, so
\* the statement fails before any sample is recorded.
C6_SlotIndex ==
    /\ CpuSlotsOk /\ TempSlotsOk /\ MemorySlotsOk /\ StorageSlotsOk
    /\ DiskSlotsOk /\ NetSlotsOk

\* The families whose series are static storage do keep the slot index, and
\* every family has recorded samples.
C6_Witness ==
    /\ ticks >= 2
    /\ CpuSlotsOk /\ TempSlotsOk /\ MemorySlotsOk /\ StorageSlotsOk
    /\ ~DiskSlotsOk /\ ~NetSlotsOk
    /\ HouseCpuLatest.timestamp[CpuIndex(now)] = now
    /\ HouseMemoryLatest[MemoryIndex(now)].timestamp = now
    /\ Len(HouseDiskIOLatest) > 0
    /\ HouseDiskIOLatest[1].timestamps[DiskIndex(now)] = now
    /\ Len(HouseNetIOLatest) > 0
    /\ HouseNetIOLatest[1].timestamps[NetIndex(now)] = now

\* The first houselinux_background call of the process.
FirstCall == ticks = 0 /\ ticks' = 1

\* C7: the first background invocation after process start records no
\* sample for the CPU, disk and network families: no slot value and no slot
\* timestamp of these families changes, and for the CPU the raw counters of
\* /proc/stat, when it can be read, become the baseline.
C7_PrimingRead ==
    [][ FirstCall =>
          /\ HouseCpuLatest' = HouseCpuLatest
          /\ HouseDiskIOLatest' = HouseDiskIOLatest
          /\ HouseNetIOLatest' = HouseNetIOLatest
          /\ src'.stat.ok =>
                 \A i \in 0..7 : Previous'[i] = src'.stat.v[i + 1] ]_vars

\* After the first call of a machine with a disk and a network device: the
\* baseline holds the counters read and no slot holds a timestamp.
C7_Witness ==
    /\ ticks = 1
    /\ src.stat.ok /\ Previous[0] = src.stat.v[1] /\ Previous[0] /= 0
    /\ \A i \in 0..(HOUSE_CPU_SPAN - 1) : HouseCpuLatest.timestamp[i] = 0
    /\ Len(HouseDiskIOLatest) > 0 /\ Len(HouseNetIOLatest) > 0

\* The text holds the fragment.
Contains(text, frag) ==
    \E i \in 1..(Len(text) - Len(frag) + 1) :
        SubSeq(text, i, i + Len(frag) - 1) = frag

\* The first tick at t=0 was the priming one, the tick at t=5 recorded the
\* only sample, busy = 50, and a status request follows.
C8_Scenario ==
    /\ ticks = 2 /\ now = 5
    /\ \A i \in 0..(HOUSE_CPU_SPAN - 1) :
           HouseCpuLatest.timestamp[i] = IF i = 1 THEN 5 ELSE 0
    /\ HouseCpuLatest.busy[1] = 50
    /\ out.op = "status"

\* C8: when the first tick at t=0 is priming and the tick at t=5 reads
\* counters whose deltas give total = 100 with 50 of them neither idle nor
\* iowait, the sample recorded is busy = 50 and the next
\* houselinux_cpu_status call reports busy as 50 %.
C8_StatusReportsFifty ==
    C8_Scenario => Contains(CpuStatusReply.buffer, "\"busy\":[50,\"%\"]")

\* The scenario happens: the sample recorded at t=5 is busy = 50.
C8_Witness ==
    /\ C8_Scenario
    /\ Previous[0] = CpuB[1] /\ Previous[3] = CpuB[4]
    /\ HouseCpuLatest.iowait[1] = 10

\* The line of /proc/diskstats read last for the device, if any.
DiskLinesOf(file, device) ==
    IF ~file.ok THEN {}
    ELSE { file.v[l] : l \in { k \in 1..Len(file.v) :
                                   file.v[k].device = device } }

\* C9: for a disk device discovered at initialization, a sampling tick 5 s
\* after the previous call at which the completed-reads counter is 100 above
\* the baseline of the device records rdrate = 20 for that device, in the
\* slot of that time.
C9_RdrateTwenty ==
    [][ \A d \in 1..Len(HouseDiskIOLatest) :
          \A line \in DiskLinesOf(src'.diskstats, HouseDiskIOLatest[d].device) :
            ( /\ ticks' = ticks + 1
              /\ NextDiskIOCollect /= 0
              /\ now' = now + HOUSE_DISKIO_PERIOD
              /\ now' >= NextDiskIOCollect
              /\ line.value[0] = HouseDiskIOLatest[d].previous[0] + 100 )
            => /\ HouseDiskIOLatest'[d].rdrate[DiskIndex(now')] = 20
               /\ HouseDiskIOLatest'[d].timestamps[DiskIndex(now')] = now' ]_vars

\* sda, found at initialization with 1000 reads completed, after the tick
\* that read 1100.
C9_Witness ==
    /\ ticks = 2
    /\ Len(HouseDiskIOLatest) > 0
    /\ HouseDiskIOLatest[1].device = "sda"
    /\ HouseDiskIOLatest[1].previous[0] = SdaA.value[0] + 100
    /\ HouseDiskIOLatest[1].timestamps[DiskIndex(now)] = now
    /\ HouseDiskIOLatest[1].rdrate[DiskIndex(now)] = 20

\* The three series that houselinux_cpu_details lists.
CpuSeries ==
    <<HouseCpuLatest.busy, HouseCpuLatest.iowait, HouseCpuLatest.steal>>

\* A slot written within the history that ends at the time of the request.
CpuPopulated(i) ==
    /\ HouseCpuLatest.timestamp[i] /= 0
    /\ HouseCpuLatest.timestamp[i] >= out.t - HOUSE_CPU_PERIOD * HOUSE_CPU_SPAN
    /\ HouseCpuLatest.timestamp[i] <= out.t

\* C10: details(series, now, since) lists exactly the slots that qualify:
\* every pair listed is the timestamp and value of a slot, with a nonzero
\* timestamp that is > since; every populated slot with a timestamp > since
\* is listed; and since = now lists nothing.
C10_DetailsExact ==
    out.op = "details" =>
        \A k \in 1..3 :
            LET listed == CpuDetailsReply[k]
            IN  /\ \A j \in 1..Len(listed) :
                       /\ listed[j][1] /= 0
                       /\ listed[j][1] > out.since
                       /\ \E i \in 0..(HOUSE_CPU_SPAN - 1) :
                              listed[j] = <<HouseCpuLatest.timestamp[i],
                                            CpuSeries[k][i]>>
                /\ \A i \in 0..(HOUSE_CPU_SPAN - 1) :
                       (CpuPopulated(i)
                            /\ HouseCpuLatest.timestamp[i] > out.since)
                       => \E j \in 1..Len(listed) :
                              listed[j] = <<HouseCpuLatest.timestamp[i],
                                            CpuSeries[k][i]>>
                /\ out.since = out.t => listed = <<>>

\* Two populated slots, of which since leaves one.
C10_Witness ==
    /\ out.op = "details"
    /\ out.since = out.t - HOUSE_CPU_PERIOD
    /\ Len(CpuDetailsReply[1]) = 1
    /\ Cardinality({ i \in 0..(HOUSE_CPU_SPAN - 1) : CpuPopulated(i) }) >= 2

-----------------------------------------------------------------------------
(* The CPU family across skipped periods: the process is stopped, or the   *)
(* machine suspended, for part of the history, and the next call of        *)
(* houselinux_background comes with a time many periods later.             *)

MaxGapTicks == 4

\* A period, five periods, fifty-six periods.
GapSteps == {5, 25, 280}

GapSources == {SourceA, SourceC}

CpuGapTick ==
    /\ ticks < MaxGapTicks
    /\ \E dt \in GapSteps, s \in GapSources :
        /\ now' = now + dt
        /\ src' = [src EXCEPT !.stat = SourceRead(now + dt, s).stat,
                              !.loadavg = SourceRead(now + dt, s).loadavg]
        /\ houselinux_cpu_background(now + dt, s)
    /\ ticks' = ticks + 1
    /\ out' = NoOutput
    /\ UNCHANGED <<reduceVars, otherVars>>

CpuGapNext == CpuGapTick \/ CpuDetails

SpecCpuGaps == CpuSpecInit /\ [][CpuGapNext]_vars

\* The timestamps of a list of pairs are in strictly ascending order.
Ascending(listed) ==
    \A j \in 1..(Len(listed) - 1) : listed[j][1] < listed[j + 1][1]

\* C11: the pairs that details lists, walking the slots from
\* (now/PERIOD + 1) % SPAN to (now/PERIOD) % SPAN, are in strictly ascending
\* order of timestamp, for every ring buffer the ticks can leave, skipped
\* periods included, and every since.
C11_DetailsAscending ==
    out.op = "details" => \A k \in 1..3 : Ascending(CpuDetailsReply[k])

\* A details request over a ring buffer that keeps a slot written more than
\* a whole history ago next to slots written since.
C11_Witness ==
    /\ out.op = "details"
    /\ out.since = 0
    /\ Len(CpuDetailsReply[1]) >= 3
    /\ \E i \in 0..(HOUSE_CPU_SPAN - 1) :
           /\ HouseCpuLatest.timestamp[i] /= 0
           /\ HouseCpuLatest.timestamp[i]
                  < out.t - HOUSE_CPU_PERIOD * HOUSE_CPU_SPAN

\* The values of the slots of a CPU series that are populated at the time of
\* the request, in the order of the slots.
CpuPopulatedValues(arr) ==
    LET slots == SelectSeq([n \in 1..HOUSE_CPU_SPAN |-> n - 1], CpuPopulated)
    IN  [j \in 1..Len(slots) |-> arr[slots[j]]]

\* The member of a status for a series reduced over its populated slots.
CpuPopulatedMember(nm, arr) ==
    LET vals == CpuPopulatedValues(arr)
    IN  houselinux_reduce_json(StatusSize, nm, vals, Len(vals), "%").buffer

\* C12: a slot that is not populated (timestamp 0, or outside
\* [now - PERIOD*SPAN, now]) is no data to a status: the minimum, median and
\* maximum it reports for busy and iowait are those of the populated slots.
C12_UnpopulatedIsNoData ==
    (out.op = "status" /\ \E i \in 0..(HOUSE_CPU_SPAN - 1) : CpuPopulated(i))
    => /\ Contains(CpuStatusReply.buffer,
                   CpuPopulatedMember("busy", HouseCpuLatest.busy))
       /\ Contains(CpuStatusReply.buffer,
                   CpuPopulatedMember("iowait", HouseCpuLatest.iowait))

\* A status over a ring buffer with both populated slots, of which one is
\* not 0, and slots never written.
C12_Witness ==
    /\ out.op = "status"
    /\ \E i \in 0..(HOUSE_CPU_SPAN - 1) :
           CpuPopulated(i) /\ HouseCpuLatest.busy[i] > 0
    /\ \E i \in 0..(HOUSE_CPU_SPAN - 1) : HouseCpuLatest.timestamp[i] = 0
    /\ CpuStatusReply.ret > 0

-----------------------------------------------------------------------------
(* The six families with the status functions called between two           *)
(* houselinux_background calls. A request keeps the size of the            *)
(* destination and the time of the call in out; each family's reply is     *)
(* what its status function returns for them.                              *)

\* The sizes of the destination: what houselinux_status has left after its
\* header, and sizes that the fragments do not fit.
StatusSizes == {StatusSize, 64, 13}

\* The ring buffers after the family status functions have handed their
\* arrays to houselinux_reduce_json.
StatusReads ==
    /\ HouseCpuLatest' =
           [HouseCpuLatest EXCEPT
               !.busy = ReduceCallerValues(@, HOUSE_CPU_SPAN),
               !.iowait = ReduceCallerValues(@, HOUSE_CPU_SPAN),
               !.steal = ReduceCallerValues(@, HOUSE_CPU_SPAN)]
    /\ IF HouseDiskIOLatest = <<>> THEN UNCHANGED HouseDiskIOLatest
       ELSE HouseDiskIOLatest' =
                [d \in 1..Len(HouseDiskIOLatest) |->
                    [HouseDiskIOLatest[d] EXCEPT
                        !.rdrate = ReduceCallerValues(@, HOUSE_DISKIO_SPAN),
                        !.rdwait = ReduceCallerValues(@, HOUSE_DISKIO_SPAN),
                        !.wrrate = ReduceCallerValues(@, HOUSE_DISKIO_SPAN),
                        !.wrwait = ReduceCallerValues(@, HOUSE_DISKIO_SPAN)]]
    /\ IF HouseNetIOLatest = <<>> THEN UNCHANGED HouseNetIOLatest
       ELSE HouseNetIOLatest' =
                [d \in 1..Len(HouseNetIOLatest) |->
                    [HouseNetIOLatest[d] EXCEPT
                        !.rxrate = ReduceCallerValues(@, HOUSE_NETIO_SPAN),
                        !.txrate = ReduceCallerValues(@, HOUSE_NETIO_SPAN)]]
    /\ HouseMountPoints' =
           [i \in 0..(HOUSE_MOUNT_MAX - 1) |->
               [HouseMountPoints[i] EXCEPT
                   !.metrics.free = ReduceCallerValues(@, HOUSE_MOUNT_SPAN)]]

Status ==
    /\ \E sz \in StatusSizes :
           out' = [op |-> "status", t |-> now, since |-> 0, size |-> sz]
    /\ StatusReads
    /\ UNCHANGED <<reduceVars, now, ticks, src, Previous, NextCpuCollect,
                   NextDiskIOCollect, NextNetIOCollect, memoryVars,
                   NextStorageEnumerate, NextCollect, tempVars, metricsVars>>

MemoryStatusReply == houselinux_memory_status(out.size, out.t)

StatusNext == Background \/ Status

SpecStatus == Init /\ [][StatusNext]_vars

\* The number of places of a text that hold the character c.
Occurrences(text, c) ==
    Cardinality({ i \in 1..Len(text) : SubSeq(text, i, i) = c })

\* A fragment that houselinux_status can append to the members of "metrics":
\* a separator and a field name first, as many closing as opening braces and
\* brackets, and no member left empty around a comma.
SelfContained(text) ==
    /\ Len(text) >= 2
    /\ SubSeq(text, 1, 2) = ",\""
    /\ Occurrences(text, "{") = Occurrences(text, "}")
    /\ Occurrences(text, "[") = Occurrences(text, "]")
    /\ \A pair \in {",,", "{,", ",}", "[,", ",]"} : ~Contains(text, pair)

\* C13: whenever a family status function returns n > 0, the n bytes it
\* wrote are a self-contained fragment of the document that houselinux_status
\* assembles, whatever the ring buffers hold.
C13_StatusSelfContained ==
    out.op = "status" =>
        \A reply \in {CpuStatusReply, MemoryStatusReply} :
            reply.ret > 0 =>
                /\ Len(reply.buffer) = reply.ret
                /\ SelfContained(reply.buffer)

\* A status request after /proc/meminfo was sampled: the memory family has
\* a fragment to return.
C13_Witness ==
    /\ out.op = "status"
    /\ MemoryStatusReply.ret > 0
    /\ CpuStatusReply.ret > 0

StorageStatusReply == houselinux_storage_status(out.size)

DiskStatusReply == houselinux_diskio_status(out.size)

\* What the four family status functions at hand return for a destination
\* of sz bytes.
StatusReplies(sz) ==
    << houselinux_cpu_status(sz), houselinux_memory_status(sz, out.t),
       houselinux_storage_status(sz), houselinux_diskio_status(sz) >>

\* C14: a family status function returns the number of bytes it wrote, less
\* than the size of the destination, when its fragment fits, and 0 when the
\* fragment would overflow the destination: it never returns a length other
\* than 0 for a fragment that did not fit whole.
C14_ReturnsLengthOrZero ==
    out.op = "status" =>
        \A k \in 1..4 :
            LET whole == StatusReplies(StatusSize)[k]
                reply == StatusReplies(out.size)[k]
            IN  IF whole.ret < out.size
                THEN reply.ret = whole.ret /\ reply.buffer = whole.buffer
                ELSE reply.ret = 0

\* A request with a destination that the storage fragment does not fit,
\* answered with a length that is not 0.
C14_Witness ==
    /\ out.op = "status"
    /\ houselinux_storage_status(StatusSize).ret >= out.size
    /\ StorageStatusReply.ret > 0

\* C15: a second houselinux_background call at the time of the call before
\* it changes nothing: the ring buffers, the baselines and the times at which
\* the families are due next stay as the first call left them.
C15_RepeatedTickIdempotent ==
    [][(ticks >= 1 /\ ticks' = ticks + 1 /\ now' = now)
       => UNCHANGED <<cpuVars, diskVars, netVars, memoryVars, storageVars,
                      tempVars>>]_vars

\* Two calls were made at the same time, and the families sampled there.
C15_Witness ==
    /\ ticks = 2
    /\ now = 1000000007
    /\ NextCpuCollect = now + HOUSE_CPU_PERIOD
    /\ NextCollect = now + HOUSE_MOUNT_PERIOD
    /\ HouseMemoryLatest[MemoryIndex(now)].timestamp = now
    /\ HouseMemoryLatest[MemoryIndex(now)].memtotal > 0

\* The names of the disks in a /proc/diskstats, and of the network devices
\* in a /proc/net/dev, that the initialize functions make entries for.
DiskNames(file) ==
    IF ~file.ok THEN {}
    ELSE { file.v[l].device :
               l \in { k \in 1..Len(file.v) : ~EndsWithDigit(file.v[k].device) } }

NetNames(file) ==
    IF ~file.ok THEN {}
    ELSE { file.v[l].device :
               l \in { k \in 1..Len(file.v) : file.v[k].device /= "lo" } }

\* C16: a disk or network device that appears in the file read by a sampling
\* tick has an entry once that tick is over, whether it was there at
\* initialization or not. (src holds each file as the latest sampling tick
\* read it.)
C16_DeviceDiscovered ==
    /\ \A device \in DiskNames(src.diskstats) :
           \E d \in 1..Len(HouseDiskIOLatest) :
               HouseDiskIOLatest[d].device = device
    /\ \A device \in NetNames(src.netdev) :
           \E d \in 1..Len(HouseNetIOLatest) :
               HouseNetIOLatest[d].device = device

\* The second of two sampling ticks has read the disk sdb and the network
\* device wlan0, which were not there at initialization.
C16_Witness ==
    /\ ticks = 3
    /\ NextDiskIOCollect = 1000000007 + 3 * HOUSE_DISKIO_PERIOD
    /\ "sdb" \in DiskNames(src.diskstats)
    /\ "wlan0" \in NetNames(src.netdev)
    /\ \A d \in 1..Len(HouseDiskIOLatest) : HouseDiskIOLatest[d].device /= "sdb"

-----------------------------------------------------------------------------
(* Resources that vanish: the disk sda, the network device eth0 and the    *)
(* mount point /home are there at first and gone from the files later.     *)

MaxVanishTicks == 4

\* The files once sda, eth0 and every mount point but / are gone.
SourceGone ==
    [SourceA EXCEPT !.diskstats = File(<<SdbA>>),
                    !.netdev = File(<<Lo>>),
                    !.mountinfo = File(<<MountLine("/", "ext4", "/dev/sda2")>>)]

VanishSources == {SourceB, SourceGone}

\* A period of the disks, a period of the mount points, a whole history.
VanishSteps == {5, 60, 300}

VanishTick ==
    /\ ticks < MaxVanishTicks
    /\ \E dt \in VanishSteps, s \in VanishSources :
        /\ now' = now + dt
        /\ src' = SourceRead(now + dt, s)
        /\ houselinux_background(now + dt, s)
    /\ ticks' = ticks + 1
    /\ out' = NoOutput
    /\ UNCHANGED reduceVars

VanishNext == VanishTick \/ Status

SpecVanish == Init /\ [][VanishNext]_vars

\* The entry was sampled within the history that ends at the request.
DiskSampledLately(entry) ==
    \E i \in 0..(HOUSE_DISKIO_SPAN - 1) :
        entry.timestamps[i] >= out.t - HOUSE_DISKIO_PERIOD * HOUSE_DISKIO_SPAN

\* C17: the entry of a resource that vanished is removed in the end, and no
\* status reports it from then on. For a disk: once the latest sampling tick
\* did not find it in /proc/diskstats and a whole history has passed since
\* its last sample, a status does not report it.
C17_VanishedNotReported ==
    (out.op = "status" /\ src.diskstats.ok) =>
        \A d \in 1..Len(HouseDiskIOLatest) :
            (/\ HouseDiskIOLatest[d].device \notin DiskNames(src.diskstats)
             /\ ~DiskSampledLately(HouseDiskIOLatest[d]))
            => ~Contains(DiskStatusReply.buffer,
                         "\"" \o HouseDiskIOLatest[d].device \o "\":")

\* A status request after sda was sampled, vanished, and stayed away for
\* more than a history; the mount point /home, gone as well, was pruned.
C17_Witness ==
    /\ out.op = "status"
    /\ out.size = StatusSize
    /\ src.diskstats.ok
    /\ \E d \in 1..Len(HouseDiskIOLatest) :
           /\ HouseDiskIOLatest[d].device = "sda"
           /\ "sda" \notin DiskNames(src.diskstats)
           /\ ~DiskSampledLately(HouseDiskIOLatest[d])
           /\ \E i \in 0..(HOUSE_DISKIO_SPAN - 1) :
                  HouseDiskIOLatest[d].timestamps[i] > 1000000007
    /\ \A v \in 0..(HOUSE_MOUNT_MAX - 1) : HouseMountPoints[v].mount /= "/home"
    /\ \E v \in 0..(HOUSE_MOUNT_MAX - 1) : HouseMountPoints[v].mount = "/"

-----------------------------------------------------------------------------
(* The storage family on a machine with more mount points than the table   *)
(* of HOUSE_MOUNT_MAX entries holds.                                       *)

MaxMountTicks == 4

\* The mount points /m1 to /m32, in this order, on one device each.
ManyMounts(from) ==
    [n \in 1..(HOUSE_MOUNT_MAX - from + 1) |->
        MountLine("/m" \o ToString(n + from - 1), "ext4",
                  "/dev/sd" \o ToString(n + from - 1))]

Extra == MountLine("/extra", "ext4", "/dev/sdx")

\* 33 mount points; then the same less /m1.
MountsFull == ManyMounts(1) \o <<Extra>>

MountsLess == ManyMounts(2) \o <<Extra>>

ManyNames ==
    MountNames \cup {"/extra"}
        \cup { "/m" \o ToString(n) : n \in 1..HOUSE_MOUNT_MAX }

ManyStatvfs ==
    [m \in ManyNames |->
        IF m \in MountNames THEN StatvfsA[m]
        ELSE Statvfs(2048, 4096, 1024, 4096)]

\* The list of MountsA with another file system mounted over "/".
MountsTwice == MountsA \o << MountLine("/", "btrfs", "/dev/sdc1") >>

MountSources ==
    { [SourceA EXCEPT !.mountinfo = File(lines), !.statvfs = ManyStatvfs] :
          lines \in {MountsFull, MountsLess, MountsA, MountsTwice} }

\* A period of the family, or a time before the next call is due.
MountSteps == {5, 60}

\* One houselinux_background call, as far as the storage family goes.
StorageTick ==
    /\ ticks < MaxMountTicks
    /\ \E dt \in MountSteps, s \in MountSources :
        /\ now' = now + dt
        /\ src' = [src EXCEPT
                      !.mountinfo = SourceRead(now + dt, s).mountinfo,
                      !.statvfs = IF now + dt < NextCollect THEN src.statvfs
                                  ELSE s.statvfs]
        /\ houselinux_storage_background(now + dt, s)
    /\ ticks' = ticks + 1
    /\ out' = NoOutput
    /\ UNCHANGED <<reduceVars, cpuVars, diskVars, netVars, memoryVars,
                   tempVars, metricsVars>>

StorageNext == StorageTick

SpecStorage == CpuSpecInit /\ [][StorageNext]_vars

\* The entries in use, and the mount points that they hold.
InUse(points) == { i \in 0..(HOUSE_MOUNT_MAX - 1) : points[i].detected > 0 }

Known(points) == { points[i].mount : i \in InUse(points) }

\* The mount points of a file that houselinux_storage_enumerate registers.
StorageMounts(file) ==
    { file.v[l].mount : l \in { k \in 1..Len(file.v) : ~NotStorage(file.v[k]) } }

\* This step is a background call that read /proc/self/mountinfo.
Enumerated ==
    /\ NextStorageEnumerate' /= NextStorageEnumerate
    /\ src'.mountinfo.ok

\* C18: the table never holds more than 32 detected mount points. When an
\* enumeration starts with all 32 entries in use, a mount point that has no
\* entry gets none, and every entry keeps its mount point, device and file
\* system or is pruned. When it starts with entries free, as many as the
\* file has new mount points, each of these gets an entry: a mount point
\* that found no room is registered once pruning has freed an entry.
C18_MountCapacity ==
    [][ /\ Cardinality(InUse(HouseMountPoints')) <= HOUSE_MOUNT_MAX
        /\ (Enumerated /\ Cardinality(InUse(HouseMountPoints))
                              = HOUSE_MOUNT_MAX)
           => /\ Known(HouseMountPoints') \subseteq Known(HouseMountPoints)
              /\ \A i \in 0..(HOUSE_MOUNT_MAX - 1) :
                     \/ HouseMountPoints'[i].detected = 0
                     \/ /\ HouseMountPoints'[i].mount
                               = HouseMountPoints[i].mount
                        /\ HouseMountPoints'[i].dev = HouseMountPoints[i].dev
                        /\ HouseMountPoints'[i].fs = HouseMountPoints[i].fs
        /\ LET new == StorageMounts(src'.mountinfo)
                          \ Known(HouseMountPoints)
           IN  (/\ Enumerated
                /\ Cardinality(new) <= HOUSE_MOUNT_MAX
                       - Cardinality(InUse(HouseMountPoints)))
               => StorageMounts(src'.mountinfo)
                      \subseteq Known(HouseMountPoints')
      ]_vars

\* /m1 to /m32 filled the table and /extra found no room; /m1 was pruned
\* and /extra has its entry now.
C18_Witness ==
    /\ Cardinality(InUse(HouseMountPoints)) = HOUSE_MOUNT_MAX
    /\ HouseMountPoints[0].mount = "/extra"
    /\ HouseMountPoints[1].mount = "/m2"
    /\ "/m1" \notin Known(HouseMountPoints)

\* This step is a sampling call of the CPU family: it is due, and it is not
\* the first call.
CpuSampled ==
    /\ NextCpuCollect /= 0
    /\ NextCpuCollect' /= NextCpuCollect

\* The sampling call of this step found no valid percentages: /proc/stat
\* could not be read, or the counters did not advance since the baseline.
CpuInvalid ==
    \/ ~src'.stat.ok
    \/ CpuTotal(CpuValue(src'.stat), Previous, 7) <= 0

\* C19: a sampling call that cannot produce valid percentages leaves busy,
\* iowait and steal of the slot of that time all at 0.
C19_InvalidTickZeroes ==
    [][(CpuSampled /\ CpuInvalid)
       => /\ HouseCpuLatest'.busy[CpuIndex(now')] = 0
          /\ HouseCpuLatest'.iowait[CpuIndex(now')] = 0
          /\ HouseCpuLatest'.steal[CpuIndex(now')] = 0]_vars

\* A sampling call that could not read /proc/stat wrote the slot that a
\* sample with stolen time was in, a whole history before.
C19_Witness ==
    /\ ticks = 3
    /\ ~src.stat.ok
    /\ NextCpuCollect = now + HOUSE_CPU_PERIOD
    /\ HouseCpuLatest.timestamp[CpuIndex(now)] = now
    /\ HouseCpuLatest.busy[CpuIndex(now)] = 0
    /\ Previous[7] = 10

\* C20: when the latest call that was due could not read /proc/stat (the
\* first call included), the next call that reads it is a priming read: it
\* stores the counters as the baseline and records nothing, no value and no
\* timestamp.
C20_PrimingAfterFailure ==
    [][(/\ ticks >= 1
        /\ ~src.stat.ok
        /\ NextCpuCollect' /= NextCpuCollect
        /\ src'.stat.ok)
       => /\ Previous' = CpuValue(src'.stat)
          /\ HouseCpuLatest'.busy = HouseCpuLatest.busy
          /\ HouseCpuLatest'.iowait = HouseCpuLatest.iowait
          /\ HouseCpuLatest'.steal = HouseCpuLatest.steal
          /\ HouseCpuLatest'.timestamp = HouseCpuLatest.timestamp]_vars

\* The first call could not read /proc/stat and the second, 5 s later, read
\* cpu 100 0 50 800 50 0 0 0 0 0: the slot holds these counters taken as
\* deltas (busy 15 %, iowait 5 %), which no seeded baseline of the model
\* gives.
C20_Witness ==
    /\ ticks = 2
    /\ now = HOUSE_CPU_PERIOD
    /\ src.stat = File(CpuA)
    /\ HouseCpuLatest.timestamp[CpuIndex(now)] = now
    /\ HouseCpuLatest.busy[CpuIndex(now)] = 15
    /\ HouseCpuLatest.iowait[CpuIndex(now)] = 5

\* This step is a sampling call of the disk family, of the network family.
DiskSampled ==
    /\ NextDiskIOCollect /= 0
    /\ NextDiskIOCollect' /= NextDiskIOCollect

NetSampled ==
    /\ NextNetIOCollect /= 0
    /\ NextNetIOCollect' /= NextNetIOCollect

C22_FailureKeepsBaseline ==
    [][ /\ (NextCpuCollect' /= NextCpuCollect /\ ~src'.stat.ok)
           => Previous' = Previous
        /\ (DiskSampled /\ ~src'.diskstats.ok)
           => /\ Len(HouseDiskIOLatest') = Len(HouseDiskIOLatest)
              /\ \A d \in 1..Len(HouseDiskIOLatest) :
                     HouseDiskIOLatest'[d].previous
                         = HouseDiskIOLatest[d].previous
        /\ (NetSampled /\ ~src'.netdev.ok)
           => /\ Len(HouseNetIOLatest') = Len(HouseNetIOLatest)
              /\ \A d \in 1..Len(HouseNetIOLatest) :
                     HouseNetIOLatest'[d].previous
                         = HouseNetIOLatest[d].previous
      ]_vars

\* The first call seeded the CPU baseline; the sampling call after it could
\* open none of the files, and the baselines of the CPU and of sda are those
\* of the first call and of initialization.
C22_Witness ==
    /\ ticks = 2
    /\ now = 1000000007 + HOUSE_CPU_PERIOD
    /\ NextDiskIOCollect = now + HOUSE_DISKIO_PERIOD
    /\ ~src.stat.ok
    /\ ~src.diskstats.ok
    /\ HouseCpuLatest.timestamp[CpuIndex(now)] = now
    /\ Previous = CpuValue(File(CpuA))
    /\ \E d \in 1..Len(HouseDiskIOLatest) :
           /\ HouseDiskIOLatest[d].device = "sda"
           /\ HouseDiskIOLatest[d].previous = SdaA.value

\* The lines of a file that the sampling loop finds to be of entry d of the
\* disk array, of the network array.
DiskLinesFor(file, d) ==
    { l \in 1..Len(file.v) :
        houselinux_diskio_find(HouseDiskIOLatest,
                               file.v[l].major, file.v[l].minor) = d - 1 }

NetLinesFor(file, d) ==
    { l \in 1..Len(file.v) :
        houselinux_netio_find(HouseNetIOLatest, file.v[l].device) = d - 1 }

\* C23: on a sampling call that reads the file, the entry of a device that
\* the file does not list is left as it was (values, timestamps, baseline),
\* and the entry of a device that it lists is sampled from its line.
C23_AbsentDeviceSkipped ==
    [][ /\ (DiskSampled /\ src'.diskstats.ok)
           => /\ Len(HouseDiskIOLatest') = Len(HouseDiskIOLatest)
              /\ \A d \in 1..Len(HouseDiskIOLatest) :
                     LET entry == HouseDiskIOLatest[d]
                         lines == DiskLinesFor(src'.diskstats, d)
                     IN  IF lines = {}
                         THEN HouseDiskIOLatest'[d] = entry
                         ELSE \E l \in lines :
                                  HouseDiskIOLatest'[d] =
                                      DiskSample(entry, DiskIndex(now'), now',
                                                 src'.diskstats.v[l].value)
        /\ (NetSampled /\ src'.netdev.ok)
           => /\ Len(HouseNetIOLatest') = Len(HouseNetIOLatest)
              /\ \A d \in 1..Len(HouseNetIOLatest) :
                     LET entry == HouseNetIOLatest[d]
                         lines == NetLinesFor(src'.netdev, d)
                     IN  IF lines = {}
                         THEN HouseNetIOLatest'[d] = entry
                         ELSE \E l \in lines :
                                  HouseNetIOLatest'[d] =
                                      NetSample(entry, NetIndex(now'), now',
                                                src'.netdev.v[l].value)
      ]_vars

\* A sampling call has read files that list neither sda nor eth0, which
\* have entries: these hold no sample of that time, and their baselines are
\* those of initialization.
C23_Witness ==
    /\ ticks = 2
    /\ now > 1000000007
    /\ NextDiskIOCollect = now + HOUSE_DISKIO_PERIOD
    /\ src.diskstats.ok
    /\ src.netdev.ok
    /\ \E d \in 1..Len(HouseDiskIOLatest) :
           /\ HouseDiskIOLatest[d].device = "sda"
           /\ DiskLinesFor(src.diskstats, d) = {}
           /\ "sda" \notin DiskNames(src.diskstats)
           /\ HouseDiskIOLatest[d].timestamps[DiskIndex(now)] /= now
           /\ HouseDiskIOLatest[d].previous = SdaA.value
    /\ \E d \in 1..Len(HouseNetIOLatest) :
           /\ HouseNetIOLatest[d].device = "eth0"
           /\ NetLinesFor(src.netdev, d) = {}
           /\ "eth0" \notin NetNames(src.netdev)
           /\ HouseNetIOLatest[d].timestamps[NetIndex(now)] /= now
           /\ HouseNetIOLatest[d].previous = EthA.value

\* A timestamp that a sampling call wrote: not the zero of the static
\* storage, not what realloc left in a new disk or network entry.
Recorded(t) == t /= 0 /\ t /= HeapGarbage

\* The recorded timestamps of a series of n slots are a period apart.
Spaced(ts, n, period) ==
    LET slots == { i \in 0..(n - 1) : Recorded(ts[i]) }
        times == { ts[i] : i \in slots }
    IN  /\ Cardinality(times) = Cardinality(slots)
        /\ \A a, b \in times : a < b => b - a >= period

\* From ts to ts2 at most one slot was given a recorded timestamp, and that
\* is t. (A slot that was cleared for a new mount point is no sample.)
OneSample(ts, ts2, n, t) ==
    LET written == { i \in 0..(n - 1) : ts2[i] /= ts[i] /\ Recorded(ts2[i]) }
    IN  /\ Cardinality(written) <= 1
        /\ \A i \in written : ts2[i] = t

\* C24: a family changes in a background call only when the time is at or
\* past its due date, and its due date is then one period after the time of
\* the call. So a call records at most one sample in each series, dated of
\* the call, and the recorded samples of a series are at least one period
\* apart: the periods missed are not made up.
C24_SamplingGated ==
    [][ /\ now' >= now
        /\ cpuVars' /= cpuVars
           => /\ now' >= NextCpuCollect
              /\ NextCpuCollect' = now' + HOUSE_CPU_PERIOD
        /\ diskVars' /= diskVars
           => /\ now' >= NextDiskIOCollect
              /\ NextDiskIOCollect' = now' + HOUSE_DISKIO_PERIOD
        /\ netVars' /= netVars
           => /\ now' >= NextNetIOCollect
              /\ NextNetIOCollect' = now' + HOUSE_NETIO_PERIOD
        /\ memoryVars' /= memoryVars
           => /\ now' >= NextMemoryCollect
              /\ NextMemoryCollect' = now' + HOUSE_MEMORY_PERIOD
        /\ storageVars' /= storageVars
           => /\ now' >= NextCollect
              /\ NextCollect' = now' + HOUSE_MOUNT_PERIOD
        /\ <<HouseTempLatest, NextTempCollect>>'
               /= <<HouseTempLatest, NextTempCollect>>
           => /\ now' >= NextTempCollect
              /\ NextTempCollect' = now' + HOUSE_TEMP_PERIOD
        /\ OneSample(HouseCpuLatest.timestamp, HouseCpuLatest'.timestamp,
                     HOUSE_CPU_SPAN, now')
        /\ Spaced(HouseCpuLatest'.timestamp, HOUSE_CPU_SPAN, HOUSE_CPU_PERIOD)
        /\ OneSample([i \in 0..(HOUSE_MEMORY_SPAN - 1) |->
                          HouseMemoryLatest[i].timestamp],
                     [i \in 0..(HOUSE_MEMORY_SPAN - 1) |->
                          HouseMemoryLatest'[i].timestamp],
                     HOUSE_MEMORY_SPAN, now')
        /\ Spaced([i \in 0..(HOUSE_MEMORY_SPAN - 1) |->
                       HouseMemoryLatest'[i].timestamp],
                  HOUSE_MEMORY_SPAN, HOUSE_MEMORY_PERIOD)
        /\ OneSample(HouseTempLatest.timestamp, HouseTempLatest'.timestamp,
                     HOUSE_TEMP_SPAN, now')
        /\ Spaced(HouseTempLatest'.timestamp, HOUSE_TEMP_SPAN,
                  HOUSE_TEMP_PERIOD)
        /\ \A m \in 0..(HOUSE_MOUNT_MAX - 1) :
               /\ OneSample(HouseMountPoints[m].metrics.timestamp,
                            HouseMountPoints'[m].metrics.timestamp,
                            HOUSE_MOUNT_SPAN, now')
               /\ Spaced(HouseMountPoints'[m].metrics.timestamp,
                         HOUSE_MOUNT_SPAN, HOUSE_MOUNT_PERIOD)
        /\ \A d \in 1..Len(HouseDiskIOLatest') :
               /\ d <= Len(HouseDiskIOLatest)
                  => OneSample(HouseDiskIOLatest[d].timestamps,
                               HouseDiskIOLatest'[d].timestamps,
                               HOUSE_DISKIO_SPAN, now')
               /\ Spaced(HouseDiskIOLatest'[d].timestamps,
                         HOUSE_DISKIO_SPAN, HOUSE_DISKIO_PERIOD)
        /\ \A d \in 1..Len(HouseNetIOLatest') :
               /\ d <= Len(HouseNetIOLatest)
                  => OneSample(HouseNetIOLatest[d].timestamps,
                               HouseNetIOLatest'[d].timestamps,
                               HOUSE_NETIO_SPAN, now')
               /\ Spaced(HouseNetIOLatest'[d].timestamps,
                         HOUSE_NETIO_SPAN, HOUSE_NETIO_PERIOD)
      ]_vars

\* Three calls, the second 3 seconds and the third 303 seconds after the
\* first: the second was due for no family, the third for all of them. The
\* CPU holds the one sample of the third call and the memory the samples of
\* the first and of the third, none in between.
C24_Witness ==
    /\ ticks = 3
    /\ now = 1000000007 + 3 + 300
    /\ NextCpuCollect = now + HOUSE_CPU_PERIOD
    /\ NextMemoryCollect = now + HOUSE_MEMORY_PERIOD
    /\ { HouseCpuLatest.timestamp[i] : i \in 0..(HOUSE_CPU_SPAN - 1) }
           = {0, now}
    /\ { HouseMemoryLatest[i].timestamp : i \in 0..(HOUSE_MEMORY_SPAN - 1) }
           = {0, 1000000007, now}

-----------------------------------------------------------------------------
(* Background calls that come late: the steps of the clock are not          *)
(* multiples of the periods.                                                *)

MaxLateTicks == 3

LateSteps == {4, 5, 296}

LateTick ==
    /\ ticks < MaxLateTicks
    /\ \E dt \in LateSteps, s \in Sources :
        /\ now' = now + dt
        /\ src' = SourceRead(now + dt, s)
        /\ houselinux_background(now + dt, s)
    /\ ticks' = ticks + 1
    /\ out' = NoOutput
    /\ UNCHANGED reduceVars

LateNext == LateTick

SpecLate == Init /\ [][LateNext]_vars

\* A sample dated t2 may take the place of what the slot held, dated t1.
Recurs(t1, t2, period, span) ==
    (Recorded(t1) /\ t2 /= t1) => t2 - t1 >= period * span

\* C25: a slot that holds a sample is written again only when its index
\* comes back, PERIOD*SPAN seconds later: the sample that replaces it is at
\* least PERIOD*SPAN seconds younger.
C25_OverwriteAfterSpan ==
    [][ /\ NextCpuCollect' /= NextCpuCollect /\ NextCpuCollect /= 0
           => Recurs(HouseCpuLatest.timestamp[CpuIndex(now')],
                     HouseCpuLatest'.timestamp[CpuIndex(now')],
                     HOUSE_CPU_PERIOD, HOUSE_CPU_SPAN)
        /\ NextMemoryCollect' /= NextMemoryCollect
           => Recurs(HouseMemoryLatest[MemoryIndex(now')].timestamp,
                     HouseMemoryLatest'[MemoryIndex(now')].timestamp,
                     HOUSE_MEMORY_PERIOD, HOUSE_MEMORY_SPAN)
      ]_vars

\* The CPU was primed at 4 and sampled at 9 and at 305: the sample of 305 is
\* in slot 1, where the sample of 9 was, 296 seconds after it.
C25_Witness ==
    /\ ticks = 3
    /\ now = 305
    /\ CpuIndex(now) = CpuIndex(9)
    /\ HouseCpuLatest.timestamp[CpuIndex(9)] = 305
    /\ NextCpuCollect = 305 + HOUSE_CPU_PERIOD
    /\ src.stat.ok

\* The series of the families in static storage hold no timestamp.
StaticSeriesZero ==
    /\ HouseCpuLatest.timestamp = Zeroes(HOUSE_CPU_SPAN)
    /\ HouseTempLatest.timestamp = Zeroes(HOUSE_TEMP_SPAN)
    /\ \A i \in 0..(HOUSE_MEMORY_SPAN - 1) : HouseMemoryLatest[i].timestamp = 0
    /\ \A m \in 0..(HOUSE_MOUNT_MAX - 1) :
           HouseMountPoints[m].metrics.timestamp = Zeroes(HOUSE_MOUNT_SPAN)

\* The series of the disk and network entries hold no timestamp, no value.
AddedSeriesZero ==
    /\ \A d \in 1..Len(HouseDiskIOLatest) :
           /\ HouseDiskIOLatest[d].timestamps = Zeroes(HOUSE_DISKIO_SPAN)
           /\ HouseDiskIOLatest[d].rdrate = Zeroes(HOUSE_DISKIO_SPAN)
           /\ HouseDiskIOLatest[d].rdwait = Zeroes(HOUSE_DISKIO_SPAN)
           /\ HouseDiskIOLatest[d].wrrate = Zeroes(HOUSE_DISKIO_SPAN)
           /\ HouseDiskIOLatest[d].wrwait = Zeroes(HOUSE_DISKIO_SPAN)
    /\ \A d \in 1..Len(HouseNetIOLatest) :
           /\ HouseNetIOLatest[d].timestamps = Zeroes(HOUSE_NETIO_SPAN)
           /\ HouseNetIOLatest[d].rxrate = Zeroes(HOUSE_NETIO_SPAN)
           /\ HouseNetIOLatest[d].txrate = Zeroes(HOUSE_NETIO_SPAN)

\* C26: every series starts with its timestamps and values at zero, those
\* of the disk and network entries that houselinux_diskio_add and
\* houselinux_netio_add create included; so before the first sampling call
\* the disks contribute nothing to a status.
C26_SeriesStartZero ==
    /\ ticks = 0 => StaticSeriesZero
    /\ ticks <= 1 => /\ AddedSeriesZero
                     /\ out.op = "status" => DiskStatusReply.ret = 0

\* A status request before any sampling call, on a machine whose new disk
\* entry holds what realloc left: the status reports sda.
C26_Witness ==
    /\ ticks <= 1
    /\ out.op = "status"
    /\ out.size = StatusSize
    /\ Len(HouseDiskIOLatest) = 1
    /\ HouseDiskIOLatest[1].device = "sda"
    /\ \A i \in 0..(HOUSE_DISKIO_SPAN - 1) :
           /\ HouseDiskIOLatest[1].timestamps[i] = HeapGarbage
           /\ HouseDiskIOLatest[1].rdrate[i] = HeapGarbage
    /\ DiskStatusReply.ret > 0
    /\ Contains(DiskStatusReply.buffer, "\"sda\":{\"rdrate\":[")

\* C27: a recorded rate is the growth of the counter since the baseline,
\* divided (truncating) by the time between the reading of the baseline and
\* this reading, for a late call as well. Stated for a sampling call that
\* follows a sampling call: the baseline of a device that both files list
\* was read when the previous one ran, HOUSE_DISKIO_PERIOD (or
\* HOUSE_NETIO_PERIOD) before the due date.
C27_RateOverElapsed ==
    [][ /\ (DiskSampled /\ src.diskstats.ok /\ src'.diskstats.ok)
           => \A d \in 1..Len(HouseDiskIOLatest) :
                  LET entry == HouseDiskIOLatest[d]
                      lines == DiskLinesFor(src'.diskstats, d)
                      elapsed ==
                          now' - (NextDiskIOCollect - HOUSE_DISKIO_PERIOD)
                  IN  (lines /= {} /\ DiskLinesFor(src.diskstats, d) /= {})
                      => \E l \in lines :
                           LET value == src'.diskstats.v[l].value
                           IN  /\ HouseDiskIOLatest'[d].rdrate[DiskIndex(now')]
                                    = CDiv(value[0] - entry.previous[0], elapsed)
                               /\ HouseDiskIOLatest'[d].wrrate[DiskIndex(now')]
                                    = CDiv(value[4] - entry.previous[4], elapsed)
        /\ (NetSampled /\ src.netdev.ok /\ src'.netdev.ok)
           => \A d \in 1..Len(HouseNetIOLatest) :
                  LET entry == HouseNetIOLatest[d]
                      lines == NetLinesFor(src'.netdev, d)
                      elapsed ==
                          now' - (NextNetIOCollect - HOUSE_NETIO_PERIOD)
                  IN  (lines /= {} /\ NetLinesFor(src.netdev, d) /= {})
                      => \E l \in lines :
                           LET value == src'.netdev.v[l].value
                           IN  /\ HouseNetIOLatest'[d].rxrate[NetIndex(now')]
                                    = CDiv(CDiv(value[0] - entry.previous[0],
                                                1024), elapsed)
                               /\ HouseNetIOLatest'[d].txrate[NetIndex(now')]
                                    = CDiv(CDiv(value[8] - entry.previous[8],
                                                1024), elapsed)
      ]_vars

\* sda was sampled with 1000 reads done, and again 300 seconds later with
\* 1100: the slot holds 20 r/s, the 100 reads divided by the period.
C27_Witness ==
    /\ ticks = 3
    /\ now = 1000000007 + 5 + 300
    /\ src.diskstats = SourceB.diskstats
    /\ NextDiskIOCollect = now + HOUSE_DISKIO_PERIOD
    /\ Len(HouseDiskIOLatest) = 1
    /\ HouseDiskIOLatest[1].previous = SdaB.value
    /\ HouseDiskIOLatest[1].timestamps[DiskIndex(now)] = now
    /\ HouseDiskIOLatest[1].rdrate[DiskIndex(now)] = 20
    /\ HouseDiskIOLatest[1].rdrate[DiskIndex(now)] /= CDiv(100, 300)

-----------------------------------------------------------------------------
(* The status document: GET /metrics/status requests between background    *)
(* calls, with and without -metrics-no-store, under a clock that can jump.  *)

MaxMetricsTicks == 4

MetricsSteps == {1, 300, 900}

RequestSteps == {0, 9, 10}

\* One houselinux_background call.
MetricsTick ==
    /\ ticks < MaxMetricsTicks
    /\ \E dt \in MetricsSteps :
        /\ now' = now + dt
        /\ src' = SourceRead(now + dt, SourceA)
        /\ houselinux_background(now + dt, SourceA)
    /\ ticks' = ticks + 1
    /\ out' = NoOutput
    /\ UNCHANGED reduceVars

\* One GET /metrics/status: houselinux_status with a uri. Here ticks counts
\* the requests with the background calls.
HttpStatus ==
    /\ ticks < MaxMetricsTicks
    /\ \E dt \in RequestSteps :
        LET status == houselinux_status(TRUE, now + dt)
        IN  /\ now' = now + dt
            /\ generated' = status.generated
            /\ buffer' = status.buffer
            /\ out' = [op |-> "http", t |-> now + dt, since |-> 0, size |-> 0]
    /\ ticks' = ticks + 1
    /\ UNCHANGED <<reduceVars, src, cpuVars, diskVars, netVars, memoryVars,
                   storageVars, tempVars, HouseMetricsStoreEnabled,
                   NextMetricsStore, flushed>>

MetricsNext == MetricsTick \/ HttpStatus

MetricsSpecInit ==
    /\ ReduceIdle
    /\ now \in StartTimes
    /\ ticks = 0
    /\ src = NoSource
    /\ out = NoOutput
    /\ \E enabled \in {0, 1} : MetricsInit(enabled)
    /\ CpuInit
    /\ OthersIdle

SpecMetrics == MetricsSpecInit /\ [][MetricsNext]_vars

\* The document that houselinux_status computes at time t from the series.
Document(t) ==
    [timestamp |-> t,
     metrics |-> <<HouseCpuLatest, HouseMemoryLatest, HouseMountPoints,
                   HouseDiskIOLatest, HouseNetIOLatest, HouseTempLatest>>]

\* C28: a request for /metrics/status less than 10 seconds after the
\* document was last generated gets that document, which is not computed
\* again; a request 10 seconds or more after it, and every call from the
\* background, computes the document and sets the time it was generated. So
\* the document that a client gets was generated at most 9 seconds earlier.
C28_StatusCached ==
    [][ /\ (ticks' = ticks + 1 /\ out'.op = "http")
           => /\ now' - generated < 10
                 => (buffer' = buffer /\ generated' = generated)
              /\ now' - generated >= 10
                 => (buffer' = Document(now') /\ generated' = now')
              /\ now' - buffer'.timestamp <= 9
              /\ now' - generated' <= 9
        /\ flushed' /= flushed
           => (buffer' = Document(now') /\ generated' = now')
      ]_vars

\* A client got the document of one second earlier, computed before the
\* background call that recorded the memory sample of this second.
C28_Witness ==
    /\ out.op = "http"
    /\ out.t = now
    /\ generated = now - 1
    /\ buffer.timestamp = generated
    /\ buffer.metrics /= <<>>
    /\ buffer.metrics[2] /= HouseMemoryLatest
    /\ HouseMemoryLatest[MemoryIndex(now)].timestamp = now

\* C29: the deadlines of the metrics flush are multiples of 300. The first
\* background call sets the deadline at now - now % 300 + 600, more than 300
\* seconds ahead, and does not flush; the deadline then moves at a flush
\* only, by 300, and a flush needs the deadline to be reached: the first
\* flush is more than 300 seconds after the first call. With
\* -metrics-no-store there is no flush.
C29_FlushOnMarks ==
    [][ /\ NextMetricsStore' % 300 = 0
        /\ HouseMetricsStoreEnabled = 0
           => (flushed' = <<>> /\ NextMetricsStore' = 0)
        /\ (NextMetricsStore = 0 /\ NextMetricsStore' /= 0)
           => /\ NextMetricsStore' = now' - (now' % 300) + 600
              /\ NextMetricsStore' > now' + 300
              /\ flushed' = flushed
        /\ flushed' /= flushed
           => /\ NextMetricsStore /= 0
              /\ now' >= NextMetricsStore
              /\ flushed' = Append(flushed, now')
              /\ NextMetricsStore' = NextMetricsStore + 300
        /\ NextMetricsStore' /= NextMetricsStore
           => (NextMetricsStore = 0 \/ flushed' /= flushed)
      ]_vars

\* The first call was at 1000000008, the deadline 1000000500 was reached by
\* the call at 1000000608, which flushed; the next deadline is 1000000800.
C29_Witness ==
    /\ HouseMetricsStoreEnabled = 1
    /\ flushed = <<1000000608>>
    /\ NextMetricsStore = 1000000800
    /\ generated = 1000000608
    /\ buffer.timestamp = 1000000608

\* C30: under a clock that never goes back, a window [k*300, (k+1)*300)
\* holds at most one flush, also after a jump of more than 300 seconds.
C30_OneFlushPerWindow ==
    \A i, j \in 1..Len(flushed) :
        i < j => flushed[i] \div 300 /= flushed[j] \div 300

\* The first call at 1 set the deadline 600; the clock jumped to 901, where
\* the call flushed and left the deadline 900; the call at 902 flushed again.
C30_Witness ==
    /\ flushed = <<901, 902>>
    /\ NextMetricsStore = 1200
    /\ now = 902

-----------------------------------------------------------------------------
(* The table of mount points.                                               *)

\* This step is a background call whose enumeration was due and could not
\* read /proc/self/mountinfo.
EnumerateFailed ==
    /\ NextStorageEnumerate' /= NextStorageEnumerate
    /\ ~src'.mountinfo.ok

\* C31: at an enumeration that reads the mount list, a registered mount
\* point that the list holds keeps its entry, detected at the time of the
\* call, and one that the list does not hold is pruned: detected is 0 and
\* dev, mount and fs are cleared. When the list cannot be read, no entry is
\* pruned or changed.
C31_MountPruning ==
    [][ /\ Enumerated
           => \A i \in InUse(HouseMountPoints) :
                  IF HouseMountPoints[i].mount
                         \in StorageMounts(src'.mountinfo)
                  THEN /\ HouseMountPoints'[i].mount
                              = HouseMountPoints[i].mount
                       /\ HouseMountPoints'[i].detected = now'
                  ELSE /\ HouseMountPoints'[i].detected = 0
                       /\ HouseMountPoints'[i].dev = NullString
                       /\ HouseMountPoints'[i].mount = NullString
                       /\ HouseMountPoints'[i].fs = NullString
        /\ EnumerateFailed
           => \A i \in 0..(HOUSE_MOUNT_MAX - 1) :
                  /\ HouseMountPoints'[i].detected
                         = HouseMountPoints[i].detected
                  /\ HouseMountPoints'[i].dev = HouseMountPoints[i].dev
                  /\ HouseMountPoints'[i].mount = HouseMountPoints[i].mount
                  /\ HouseMountPoints'[i].fs = HouseMountPoints[i].fs
      ]_vars

\* The second enumeration read a list without /home: "/" is detected at the
\* time of the call, and the entry that held /home (400 MB) is free, its
\* samples still in place.
C31_Witness ==
    /\ ticks = 2
    /\ now > 1000000007
    /\ src.mountinfo = File(MountsB)
    /\ NextStorageEnumerate = now + 60
    /\ \E i \in InUse(HouseMountPoints) :
           /\ HouseMountPoints[i].mount = "/"
           /\ HouseMountPoints[i].detected = now
    /\ \E i \in 0..(HOUSE_MOUNT_MAX - 1) :
           /\ HouseMountPoints[i] =
                  [HouseMountPoints[i] EXCEPT
                       !.detected = 0, !.dev = NullString,
                       !.mount = NullString, !.fs = NullString]
           /\ HouseMountPoints[i].metrics.size = 400
           /\ HouseMountPoints[i].metrics.timestamp
                  /= Zeroes(HOUSE_MOUNT_SPAN)

\* The free space of the slots of an entry that hold a sample, 0 in the
\* others: what the series holds of the samples recorded since its
\* timestamps were last cleared.
SinceReset(metrics) ==
    [j \in 0..(HOUSE_MOUNT_SPAN - 1) |->
        IF metrics.timestamp[j] /= 0 THEN metrics.free[j] ELSE 0]

\* The volume that houselinux_storage_status writes for a mount point of
\* that size and these free spaces.
VolumeText(mount, total, free) ==
    "\"" \o mount \o "\":{\"size\":[" \o Lld(total) \o ",\"MB\"]"
        \o houselinux_reduce_json(StatusSize, "free",
                                  AsSeq(free, HOUSE_MOUNT_SPAN),
                                  HOUSE_MOUNT_SPAN, "MB").buffer
        \o "}"

\* C32: when the identity of an entry changes (a free entry is taken for a
\* mount point, or the dev or fs of a mount point changes), its timestamps
\* are all 0 before the call samples it, and from then on the storage status
\* reports for it the samples recorded since: no free space that was sampled
\* for the identity before.
C32_HistoryReset ==
    LET status == houselinux_storage_status(StatusSize)
    IN  \A i \in InUse(HouseMountPoints) :
            LET point == HouseMountPoints[i]
            IN  point.metrics.size /= 0
                => Contains(status.buffer,
                            VolumeText(point.mount, point.metrics.size,
                                       SinceReset(point.metrics)))

\* /m32 took the entry that "/" had left, with the 100 MB that were free on
\* "/" at time 5 in a slot without timestamp: the status reports them as the
\* maximum of /m32, which had 4 MB free when it was sampled.
C32_Witness ==
    /\ now = 125
    /\ HouseMountPoints[1].mount = "/m32"
    /\ HouseMountPoints[1].detected = 125
    /\ HouseMountPoints[1].metrics.timestamp
           = [j \in 0..(HOUSE_MOUNT_SPAN - 1) |-> IF j = 2 THEN 125 ELSE 0]
    /\ HouseMountPoints[1].metrics.free[0] = 100
    /\ HouseMountPoints[1].metrics.free[2] = 4
    /\ Contains(houselinux_storage_status(StatusSize).buffer,
                "\"/m32\":{\"size\":[8,\"MB\"],\"free\":[0,100,\"MB\"]}")

\* C33: no two entries in use hold the same mount path, whatever the lists
\* that were enumerated: mount points that come, go, come back, or that a
\* list holds twice.
C33_MountUnique ==
    \A i, j \in InUse(HouseMountPoints) :
        i /= j => HouseMountPoints[i].mount /= HouseMountPoints[j].mount

\* The list of the latest enumeration holds "/" twice, after a list that
\* held it once: one entry holds "/", with the device of the second line.
C33_Witness ==
    /\ ticks >= 2
    /\ src.mountinfo = File(MountsTwice)
    /\ NextStorageEnumerate = now + 60
    /\ Cardinality({ i \in InUse(HouseMountPoints) :
                         HouseMountPoints[i].mount = "/" }) = 1
    /\ \E i \in InUse(HouseMountPoints) :
           /\ HouseMountPoints[i].mount = "/"
           /\ HouseMountPoints[i].dev = "/dev/sdc1"
           /\ HouseMountPoints[i].detected = now
    /\ "/home" \in Known(HouseMountPoints)

(***************************************************************************)
(* The extremes that the memory status reports.                            *)

\* The values of one field in the slots that houselinux_memory_status
\* visits at the time of the request.
MemoryField(f) ==
    { MemoryWalk(out.t)[k][f] : k \in 1..Len(MemoryWalk(out.t)) }

Lowest(set) == CHOOSE v \in set : \A w \in set : v <= w

Highest(set) == CHOOSE v \in set : \A w \in set : v >= w

\* C34: for available memory, dirty memory and free swap, the memory status
\* reports the lowest and the highest of the values held by the slots with
\* a timestamp other than 0, also when some of these values are 0 and in
\* whatever order the slots are visited; the one-value form is used exactly
\* when the lowest equals the highest.
C34_MemoryExtremes ==
    (out.op = "status" /\ MemoryWalk(out.t) /= <<>>) =>
        LET r == MemoryReduce([min |-> NoMemory, max |-> NoMemory,
                               memtotal |-> 0, swaptotal |-> 0],
                              MemoryWalk(out.t))
            reply == houselinux_memory_status(StatusSize, out.t)
            lo == Lowest(MemoryField("memdirty"))
            hi == Highest(MemoryField("memdirty"))
        IN  /\ \A f \in {"memavailable", "memdirty", "swapfree"} :
                   /\ r.min[f] = Lowest(MemoryField(f))
                   /\ r.max[f] = Highest(MemoryField(f))
            /\ reply.ret > 0 =>
                   (Contains(reply.buffer,
                             "\"dirty\":[" \o Lld(lo) \o "," \o Lld(hi)
                                 \o ",\"MB\"]")
                        <=> lo /= hi)

\* A request when two slots are populated, the older one with 0 MB of dirty
\* memory and the later one with 2 MB: the status has "dirty" in its
\* one-value form, with 2.
C34_Witness ==
    /\ out.op = "status"
    /\ out.size = StatusSize
    /\ MemoryField("memdirty") = {0, 2}
    /\ Len(MemoryWalk(out.t)) = 2
    /\ MemoryWalk(out.t)[1].memdirty = 0
    /\ Contains(MemoryStatusReply.buffer, "\"dirty\":[2,\"MB\"]")

(***************************************************************************)
(* The bytes that the status functions write.                              *)

\* The body of the loop of houselinux_netio_status over the entries left,
\* from the destination st. Gives the destination as the loop leaves it.
RECURSIVE NetStatusLoop(_, _, _, _)
NetStatusLoop(list, st, sep, sz) ==
    IF list = <<>> THEN st
    ELSE LET entry == Head(list)
             startdev == st.cursor
             label == sep \o "\"" \o entry.device \o "\":"
             st1 == IF st.cursor >= sz
                    THEN [st EXCEPT !.cursor = @ + Len(label)]
                    ELSE Snprintf(st, sz, label)
             startmetrics == st1.cursor
             st2 == ReduceJsonAt(st1, sz, "rxrate", entry.rxrate,
                                 HOUSE_NETIO_SPAN, "KB/s")
             st3 == ReduceJsonAt(st2, sz, "txrate", entry.txrate,
                                 HOUSE_NETIO_SPAN, "KB/s")
             st4 == Snprintf(Poke(st3, startmetrics, "{"), sz, "}")
         IN  IF st1.cursor >= sz THEN st1
             ELSE IF st2.cursor >= sz THEN st2
             ELSE IF st3.cursor >= sz THEN st3
             ELSE IF st3.cursor = startmetrics
                  THEN NetStatusLoop(Tail(list),
                                     [st1 EXCEPT !.cursor = startdev], sep, sz)
             ELSE NetStatusLoop(Tail(list), st4, ",", sz)

\* The outcomes of snprintf (buffer+cursor, size-cursor, text), each the set
\* of the offsets of buffer that it writes, the terminating NUL included. A
\* size of 0 writes nothing. A size below 0 is a huge size_t: the C library
\* writes the whole text, or refuses a size beyond INT_MAX.
SnprintfOffsets(cursor, sz, text) ==
    IF sz - cursor > 0
    THEN { cursor..(cursor + (IF Len(text) < sz - cursor THEN Len(text)
                              ELSE sz - cursor - 1)) }
    ELSE IF sz - cursor = 0 THEN { {} }
    ELSE { cursor..(cursor + Len(text)), {} }

\* The cursor of the snprintf that closes the object of
\* houselinux_diskio_status and of houselinux_netio_status, after the loop;
\* none when the function returns before it.
DiskStatusClosing(sz) ==
    LET st0 == SnprintfAt0(sz, ",\"disk\":{")
        loop == DiskStatusLoop(HouseDiskIOLatest, st0, "", sz)
    IN  IF st0.cursor >= sz \/ loop.cursor = st0.cursor THEN {}
        ELSE {loop.cursor}

NetStatusClosing(sz) ==
    LET st0 == SnprintfAt0(sz, ",\"net\":{")
        loop == NetStatusLoop(HouseNetIOLatest, st0, "", sz)
    IN  IF st0.cursor >= sz \/ loop.cursor = st0.cursor THEN {}
        ELSE {loop.cursor}

\* The same for houselinux_storage_status, which writes at saved.
StorageStatusClosing(sz) ==
    LET st0 == SnprintfAt0(sz, ",\"storage\":{")
        loop == StorageStatusLoop(StorageVolumes, st0, st0.cursor, "", sz)
    IN  IF st0.cursor >= sz THEN {} ELSE {loop.saved}

\* C35: whatever the size of the destination and the devices at hand, a
\* status function writes no byte at an offset of size or more: once the
\* cursor has reached size, the call that closes the object writes nothing
\* at buffer + cursor.
C35_NoWritePastSize ==
    out.op = "status" =>
        \A cursor \in DiskStatusClosing(out.size)
                          \cup NetStatusClosing(out.size)
                          \cup StorageStatusClosing(out.size) :
            \A written \in SnprintfOffsets(cursor, out.size, "}") :
                \A offset \in written : offset < out.size

\* A request with a destination of 13 bytes: the name of the first disk
\* takes the cursor from 9 to 15, the loop is left, and the object is closed
\* at offset 15.
C35_Witness ==
    /\ out.op = "status"
    /\ out.size = 13
    /\ DiskStatusClosing(out.size) = {15}
    /\ DiskStatusReply.ret = 0

(***************************************************************************)
(* The storage status in a destination that the volumes do not fit.        *)

\* The destinations that hold the opening of the storage object and not
\* every volume of the model.
MaxSmallSize == 120

SmallSizes == 13..MaxSmallSize

\* The volumes 1..k of the table, comma separated.
RECURSIVE VolumeList(_)
VolumeList(k) ==
    IF k = 0 THEN ""
    ELSE (IF k = 1 THEN "" ELSE VolumeList(k - 1) \o ",")
         \o VolumeText(StorageVolumes[k].mount,
                       StorageVolumes[k].metrics.size,
                       StorageVolumes[k].metrics.free)

\* houselog_trace (HOUSE_FAILURE, "BUFFER", "overflow") is called.
StorageOverflowTraced(sz) ==
    LET st0 == SnprintfAt0(sz, ",\"storage\":{")
        loop == StorageStatusLoop(StorageVolumes, st0, st0.cursor, "", sz)
    IN  loop.saved /= loop.st.cursor

\* C36: when a destination holds the opening of the storage object and not
\* every volume, houselinux_storage_status returns the opening, the volumes
\* that fit whole and the closing brace, of a length below the size, and
\* logs the overflow.
C36_OverflowEndsAtVolume ==
    \A sz \in SmallSizes :
        LET opening == ",\"storage\":{"
            reply == houselinux_storage_status(sz)
        IN  Len(opening \o VolumeList(Len(StorageVolumes))) >= sz
            => /\ StorageOverflowTraced(sz)
               /\ reply.ret < sz
               /\ \E k \in 0..(Len(StorageVolumes) - 1) :
                      /\ reply.buffer = opening \o VolumeList(k) \o "}"
                      /\ reply.ret = Len(reply.buffer)

\* A destination of 41 bytes for a volume of 46: the opening and the size
\* of the volume take 39 bytes, "free" does not fit, the volume is closed
\* without it, no overflow is logged, and the function returns 41 for a
\* text of 40 bytes with the object left open.
C36_Witness ==
    /\ Len(StorageVolumes) >= 1
    /\ VolumeList(1) = "\"/dev/shm\":{\"size\":[8,\"MB\"],\"free\":[0,8,\"MB\"]}"
    /\ houselinux_storage_status(41) =
           [ret |-> 41,
            buffer |-> ",\"storage\":{\"/dev/shm\":{\"size\":[8,\"MB\"]}"]
    /\ ~StorageOverflowTraced(41)

(***************************************************************************)
(* The ranges of the values recorded.                                      *)

\* The increments of a counter between two reads that the ranges are
\* checked for, besides those of the files of the model.
MaxDelta == 3

Deltas == {0, 1, MaxDelta, 100 * MaxDelta}

\* Arrays of one slot, for a sample computed apart from the ring buffers.
OneSlot == [i \in {0} |-> 0]

OneCpuSlot == [busy |-> OneSlot, iowait |-> OneSlot, steal |-> OneSlot]

OneDiskSlot(previous) ==
    [rdrate |-> OneSlot, rdwait |-> OneSlot, wrrate |-> OneSlot,
     wrwait |-> OneSlot, timestamps |-> OneSlot, previous |-> previous]

OneNetSlot(previous) ==
    [rxrate |-> OneSlot, txrate |-> OneSlot, timestamps |-> OneSlot,
     previous |-> previous]

\* The counters i of to are not below those of from.
NotDecreased(from, to, items) == \A i \in items : to[i] >= from[i]

\* The percentages of slot index of latest are in range.
CpuInRange(latest, index) ==
    /\ latest.busy[index] \in 0..100
    /\ latest.iowait[index] \in 0..100
    /\ latest.steal[index] >= 0
    /\ latest.steal[index] <= latest.busy[index]
    /\ latest.busy[index] + latest.iowait[index] <= 100

\* The rates and waits of slot index of a disk, the rates of a network
\* device.
DiskInRange(entry, index) ==
    /\ entry.rdrate[index] >= 0 /\ entry.rdwait[index] >= 0
    /\ entry.wrrate[index] >= 0 /\ entry.wrwait[index] >= 0

NetInRange(entry, index) ==
    entry.rxrate[index] >= 0 /\ entry.txrate[index] >= 0

\* C37: a CPU sample computed from counters that are not below the baseline,
\* with a total above 0, has busy and iowait within 0..100, steal within
\* 0..busy and busy + iowait at most 100; the rates and waits of a disk and
\* the rates of a network device computed from counters that are not below
\* the baseline are not negative. Checked for the line that the call read
\* and for the baseline of the state raised by the increments of Deltas.
C37_ValuesInRange ==
    [][
        /\ (CpuSampled /\ src'.stat.ok) =>
            /\ (/\ NotDecreased(Previous, CpuValue(src'.stat), 0..7)
                /\ CpuTotal(CpuValue(src'.stat), Previous, 7) > 0)
               => CpuInRange(HouseCpuLatest', CpuIndex(now'))
            /\ \A user, idle, iowait, steal \in Deltas :
                   LET value == [Previous EXCEPT ![0] = @ + user,
                                                 ![3] = @ + idle,
                                                 ![4] = @ + iowait,
                                                 ![7] = @ + steal]
                   IN  CpuTotal(value, Previous, 7) > 0
                       => CpuInRange(CpuSample(OneCpuSlot, 0, value,
                                               Previous), 0)
        /\ (DiskSampled /\ src'.diskstats.ok) =>
            \A d \in 1..Len(HouseDiskIOLatest) :
                /\ (/\ Cardinality(DiskLinesFor(src'.diskstats, d)) = 1
                    /\ \A l \in DiskLinesFor(src'.diskstats, d) :
                           NotDecreased(HouseDiskIOLatest[d].previous,
                                        src'.diskstats.v[l].value,
                                        {0, 3, 4, 7}))
                   => DiskInRange(HouseDiskIOLatest'[d], DiskIndex(now'))
                /\ \A reads, rdms, writes, wrms \in Deltas :
                       LET entry == OneDiskSlot(HouseDiskIOLatest[d].previous)
                           value == [entry.previous EXCEPT
                                        ![0] = @ + reads, ![3] = @ + rdms,
                                        ![4] = @ + writes, ![7] = @ + wrms]
                       IN  DiskInRange(DiskSample(entry, 0, now', value), 0)
        /\ (NetSampled /\ src'.netdev.ok) =>
            \A d \in 1..Len(HouseNetIOLatest) :
                /\ (/\ Cardinality(NetLinesFor(src'.netdev, d)) = 1
                    /\ \A l \in NetLinesFor(src'.netdev, d) :
                           NotDecreased(HouseNetIOLatest[d].previous,
                                        src'.netdev.v[l].value, {0, 8}))
                   => NetInRange(HouseNetIOLatest'[d], NetIndex(now'))
                /\ \A rx, tx \in Deltas :
                       LET entry == OneNetSlot(HouseNetIOLatest[d].previous)
                           value == [entry.previous EXCEPT
                                        ![0] = @ + rx, ![8] = @ + tx]
                       IN  NetInRange(NetSample(entry, 0, now', value), 0)
    ]_vars

\* A sample of the three families from counters above their baselines: the
\* "cpu" line went from CpuB to CpuC (busy 35, iowait 5, steal 10), sda and
\* eth0 have a rate above 0.
C37_Witness ==
    /\ src.stat = File(CpuC)
    /\ Previous = CpuValue(File(CpuC))
    /\ HouseCpuLatest.timestamp[CpuIndex(now)] = now
    /\ HouseCpuLatest.busy[CpuIndex(now)] = 35
    /\ HouseCpuLatest.iowait[CpuIndex(now)] = 5
    /\ HouseCpuLatest.steal[CpuIndex(now)] = 10
    /\ \E d \in 1..Len(HouseDiskIOLatest) :
           /\ HouseDiskIOLatest[d].timestamps[DiskIndex(now)] = now
           /\ HouseDiskIOLatest[d].wrrate[DiskIndex(now)] > 0
           /\ HouseDiskIOLatest[d].wrwait[DiskIndex(now)] >= 0
    /\ \E d \in 1..Len(HouseNetIOLatest) :
           /\ HouseNetIOLatest[d].timestamps[NetIndex(now)] = now
           /\ HouseNetIOLatest[d].txrate[NetIndex(now)] >= 0

(***************************************************************************)
(* The program left to run: houselinux_background is called every second,  *)
(* and every file it reads can be read.                                    *)

\* The calls of one run.
MaxSteadyTicks == 360

\* What the files hold while the counters of SourceA have moved on.
SourceSteady ==
    [SourceA EXCEPT !.stat = File(CpuC),
                    !.diskstats = File(<<SdaC, Sda1>>),
                    !.netdev = File(<<Lo, EthB>>),
                    !.meminfo = File(MeminfoB),
                    !.tempcpu = File(47000)]

\* The files at time t.
SteadySource(t) == IF (t \div 20) % 3 = 0 THEN SourceSteady ELSE SourceA

SteadyTick ==
    /\ ticks < MaxSteadyTicks
    /\ now' = now + 1
    /\ src' = SourceRead(now + 1, SteadySource(now + 1))
    /\ houselinux_background(now + 1, SteadySource(now + 1))
    /\ ticks' = ticks + 1
    /\ out' = NoOutput
    /\ UNCHANGED reduceVars

SteadyNext == SteadyTick

\* Another call is made: every step of SteadyTick is one, and one is
\* possible whenever SteadyTick is.
SteadyCall == ticks < MaxSteadyTicks /\ ticks' = ticks + 1

\* The main loop does not stop calling houselinux_background.
SpecSteady == Init /\ [][SteadyNext]_vars /\ WF_ticks(SteadyCall)

\* Every slot of a ring buffer holds a sample of the last span periods.
InWindow(ts, span, period) ==
    \A i \in 0..(span - 1) :
        ts[i] /= 0 /\ ts[i] > now - period * span /\ ts[i] <= now

AllPopulated ==
    /\ InWindow(HouseCpuLatest.timestamp, HOUSE_CPU_SPAN, HOUSE_CPU_PERIOD)
    /\ \A d \in 1..Len(HouseDiskIOLatest) :
           InWindow(HouseDiskIOLatest[d].timestamps, HOUSE_DISKIO_SPAN,
                    HOUSE_DISKIO_PERIOD)
    /\ \A d \in 1..Len(HouseNetIOLatest) :
           InWindow(HouseNetIOLatest[d].timestamps, HOUSE_NETIO_SPAN,
                    HOUSE_NETIO_PERIOD)
    /\ InWindow([i \in 0..(HOUSE_MEMORY_SPAN - 1) |->
                    HouseMemoryLatest[i].timestamp],
                HOUSE_MEMORY_SPAN, HOUSE_MEMORY_PERIOD)
    /\ InUse(HouseMountPoints) /= {}
    /\ \A i \in InUse(HouseMountPoints) :
           InWindow(HouseMountPoints[i].metrics.timestamp, HOUSE_MOUNT_SPAN,
                    HOUSE_MOUNT_PERIOD)
    /\ InWindow(HouseTempLatest.timestamp, HOUSE_TEMP_SPAN, HOUSE_TEMP_PERIOD)

\* A family that was due at next before the call and is due at next2 after
\* it was called at the second it was due, and is due one period later.
OnePeriod(next, next2, period) ==
    (next /= 0 /\ next2 /= next) => (now' = next /\ next2 = next + period)

SteadyPace ==
    /\ OnePeriod(NextCpuCollect, NextCpuCollect', HOUSE_CPU_PERIOD)
    /\ OnePeriod(NextDiskIOCollect, NextDiskIOCollect', HOUSE_DISKIO_PERIOD)
    /\ OnePeriod(NextNetIOCollect, NextNetIOCollect', HOUSE_NETIO_PERIOD)
    /\ OnePeriod(NextMemoryCollect, NextMemoryCollect', HOUSE_MEMORY_PERIOD)
    /\ OnePeriod(NextCollect, NextCollect', HOUSE_MOUNT_PERIOD)
    /\ OnePeriod(NextTempCollect, NextTempCollect', HOUSE_TEMP_PERIOD)

\* C39: when houselinux_background is called every second and every file
\* can be read, each family samples once per period, and there comes a call
\* after which every slot of every family holds a sample no older than its
\* period times its span; from then on this holds after every call.
C39_EventuallyPopulated ==
    /\ <>[]AllPopulated
    /\ [][SteadyPace /\ (AllPopulated => AllPopulated')]_vars

\* Every slot is populated, and the run went on for 40 s after the CPU
\* family had its ring buffer full: slots were written a second time.
C39_Witness ==
    /\ AllPopulated
    /\ ticks >= 340
    /\ HouseDiskIOLatest /= <<>>
    /\ HouseNetIOLatest /= <<>>

(***************************************************************************)
(* What a status request leaves behind: requests served between the calls  *)
(* of the run above.                                                       *)

ReadNext == SteadyTick \/ Status

SpecRead == Init /\ [][ReadNext]_vars

\* This step is a status request.
StatusRequested == out' /= out /\ out'.op = "status"

\* The time that passes between two status requests with no sampling call
\* in between: none, a second, one period of the memory family.
ReadDelays == {0, 1, HOUSE_MEMORY_PERIOD}

\* C38: a status request changes no slot, timestamp or baseline of any
\* family, and a fragment computed after it, with no sampling call in
\* between, is the fragment computed by it: the memory status, which reads
\* the clock, gives for the ring buffer it left and a later time what it
\* gave.
C38_ReadingKeepsState ==
    [][
        StatusRequested =>
            /\ UNCHANGED <<cpuVars, diskVars, netVars, memoryVars,
                           storageVars, tempVars>>
            /\ \A dt \in ReadDelays :
                   now + dt < NextMemoryCollect =>
                       houselinux_memory_status(out'.size, now + dt)
                           = houselinux_memory_status(out'.size, now)
    ]_vars

\* A request when the 30 slots of memory are populated and the next sample
\* is due in two seconds: the fragment has "dirty" as 2, and a request one
\* second later, in the next period of the clock, has it as 0 to 2.
C38_Witness ==
    /\ out.op = "status"
    /\ out.size = StatusSize
    /\ out.t = now
    /\ now + 1 < NextMemoryCollect
    /\ Len(MemoryWalk(now)) = HOUSE_MEMORY_SPAN
    /\ Contains(houselinux_memory_status(StatusSize, now).buffer,
                "\"dirty\":[2,\"MB\"]")
    /\ Contains(houselinux_memory_status(StatusSize, now + 1).buffer,
                "\"dirty\":[0,2,\"MB\"]")

=============================================================================
